---------------------------- MODULE Spec2Model ----------------------------
(***************************************************************************)
(* A model of taurus, a terminal client for the Gemini protocol.           *)
(*                                                                         *)
(*   - GemspaceNav   (src/src/app/gemspace_nav.rs): the back/forward       *)
(*                    history, a Vec<Url> with a 0-based cursor.           *)
(*   - Client        (src/src/client.rs): request/classify one reply.      *)
(*   - GemTextParser (src/src/gemtext.rs): line-oriented markup parser.    *)
(*   - Content       (src/src/app/content.rs): text / binary body.         *)
(*   - App           (src/src/app/mod.rs): the session control loop.       *)
(*                                                                         *)
(* Text is a sequence of one-character strings; a byte string is a         *)
(* sequence of one-character strings (ASCII bytes) and of the token        *)
(* "<FF>", a byte that never occurs in valid UTF-8.  Option<T> is the      *)
(* empty tuple (None) or a one-element tuple (Some(x)).                    *)
(***************************************************************************)
EXTENDS Integers, Sequences, FiniteSets, TLC

VARIABLES
    gemspaces,   \* GemspaceNav.gemspaces : Vec<Url>
    position,    \* GemspaceNav.position  : usize, 0-based index in gemspaces
    exit,        \* "running", or how the program ended: "quit", "error", "panic",
                 \* "abort"
    content,     \* App.content : Option<Content>
    scroll,      \* App.scroll  : (u16, u16)
    status,      \* App.status  : AppStatus
    auto_redirect, \* Client.auto_redirect
    call,        \* history variable: the last Client::request, its inputs and result
    lastEv,      \* history variable: the step of App::run taken last
    navLog,      \* history variable: the last navigation calls, newest last
    navPrev,     \* history variable: the history before the last navigation call
    applied,     \* a function of content.rs or gemtext.rs applied on its own:
                 \* its inputs and its result
    rows         \* history variable: the height terminal::size()?.1 gave the
                 \* last step, if it asked for it

-----------------------------------------------------------------------------
(* Bounds of the model.                                                    *)

\* Most lines of a document parsed on its own.
MaxLines == 3

\* Longest byte sequence classified on its own.
MaxBytes == 3

\* Longest history on which push is still called.
MaxHist == 3

\* Number of navigation calls remembered in navLog.
MaxLog == 3

\* Number of connections one call of request carries a request on before
\* the process runs out of open files or of stack.
MaxOpen == 3

\* The session is followed at the vertical scroll offsets up to this one and
\* at those no further than this from the largest u16.
MaxScroll == 1

-----------------------------------------------------------------------------
(* Option<T>                                                               *)

None == << >>

Some(x) == << x >>

IsSome(o) == Len(o) = 1

Unwrap(o) == o[1]

-----------------------------------------------------------------------------
(* Text helpers (str methods of the Rust standard library).                *)

\* str::starts_with
StartsWith(s, p) == Len(s) >= Len(p) /\ SubSeq(s, 1, Len(p)) = p

\* Index of the first occurrence of pattern p in s at or after index i; 0 if none.
RECURSIVE FindFrom(_, _, _)
FindFrom(s, p, i) ==
    IF i + Len(p) - 1 > Len(s) THEN 0
    ELSE IF SubSeq(s, i, i + Len(p) - 1) = p THEN i
    ELSE FindFrom(s, p, i + 1)

\* str::find with a string pattern: 1-based index of the first match, 0 if none.
Find(s, p) == FindFrom(s, p, 1)

\* str::contains
Contains(s, p) == Find(s, p) > 0

\* char::is_whitespace, on the characters of the model's alphabet.
IsWhitespace(c) == c \in {" ", "\t", "\n", "\r"}

\* Index of the first whitespace character of s at or after i; 0 if none.
RECURSIVE FindWhitespaceFrom(_, _)
FindWhitespaceFrom(s, i) ==
    IF i > Len(s) THEN 0
    ELSE IF IsWhitespace(s[i]) THEN i
    ELSE FindWhitespaceFrom(s, i + 1)

\* str::trim_start
RECURSIVE TrimStart(_)
TrimStart(s) ==
    IF s # << >> /\ IsWhitespace(Head(s)) THEN TrimStart(Tail(s)) ELSE s

\* str::trim_end
RECURSIVE TrimEnd(_)
TrimEnd(s) ==
    IF s # << >> /\ IsWhitespace(s[Len(s)])
    THEN TrimEnd(SubSeq(s, 1, Len(s) - 1))
    ELSE s

\* str::trim
Trim(s) == TrimEnd(TrimStart(s))

\* The value of a decimal digit.
DigitValue(c) ==
    CASE c = "0" -> 0 [] c = "1" -> 1 [] c = "2" -> 2 [] c = "3" -> 3
      [] c = "4" -> 4 [] c = "5" -> 5 [] c = "6" -> 6 [] c = "7" -> 7
      [] c = "8" -> 8 [] c = "9" -> 9

\* The value of a non-empty text of digits.
RECURSIVE DigitsValue(_)
DigitsValue(ds) ==
    IF Len(ds) = 1 THEN DigitValue(ds[1])
    ELSE 10 * DigitsValue(SubSeq(ds, 1, Len(ds) - 1)) + DigitValue(ds[Len(ds)])

\* The grave accent character (U+0060), which a string literal cannot hold.
Backtick == "<U+0060>"

\* format!("{n}") of an unsigned number.
RECURSIVE ToDigits(_)
ToDigits(n) ==
    LET d == <<"0", "1", "2", "3", "4", "5", "6", "7", "8", "9">>[(n % 10) + 1]
    IN  IF n < 10 THEN <<d>> ELSE Append(ToDigits(n \div 10), d)

-----------------------------------------------------------------------------
(* Addresses: the Url of the url crate.                                    *)
(*   scheme, host, path : text;  port : Option<u16>, absent in every       *)
(*   address that is parsed;  query : Option<text>.                        *)
(* The texts parsed and joined are over the printable ASCII characters,    *)
(* tab, CR and LF, without "#", "@", "\" and "%", without "." in paths     *)
(* and without ":" after the scheme (so without ports, user names and      *)
(* IPv6 literals; an address with a port or an IPv6 literal is built, not  *)
(* parsed).  For the schemes the url crate calls special they are further  *)
(* restricted: the scheme file, with its drive letters and its dropped     *)
(* hosts, is not covered at all, and http, https, ws, wss and ftp only in  *)
(* the form scheme "://" host [path] ["?" query] with a host that is a     *)
(* lower-case domain name whose last label is not a number.  An address    *)
(* without "//" after the scheme has no blank in a path that does not      *)
(* start with "/"; and "scheme://" with neither host nor path, which the   *)
(* fields of an address do not tell from "scheme:", is not covered.        *)

MkUrl(scheme, host, path, query) ==
    [scheme |-> scheme, host |-> host, port |-> None, path |-> path,
     query |-> query]

\* An address with an explicit port.
UrlWithPort(u, port) == [u EXCEPT !.port = Some(port)]

\* Url::port
UrlPort(u) == u.port

\* Url::as_str: the serialization of an address that has a host.
UrlAsStr(u) ==
    u.scheme \o <<":", "/", "/">> \o u.host
        \o (IF IsSome(u.port) THEN <<":">> \o ToDigits(Unwrap(u.port))
            ELSE << >>)
        \o u.path
        \o (IF IsSome(u.query) THEN <<"?">> \o Unwrap(u.query) ELSE << >>)

\* The result of a fallible address operation.
UrlOk(u) == [ok |-> TRUE, url |-> u]

UrlErr == [ok |-> FALSE, url |-> MkUrl(<< >>, << >>, << >>, None)]

Letters ==
    {"a", "b", "c", "d", "e", "f", "g", "h", "i", "j", "k", "l", "m",
     "n", "o", "p", "q", "r", "s", "t", "u", "v", "w", "x", "y", "z"}

Digits == {"0", "1", "2", "3", "4", "5", "6", "7", "8", "9"}

\* The upper-case letters and, at the same places, the lower-case ones.
UpperCase ==
    <<"A", "B", "C", "D", "E", "F", "G", "H", "I", "J", "K", "L", "M",
      "N", "O", "P", "Q", "R", "S", "T", "U", "V", "W", "X", "Y", "Z">>

LowerCase ==
    <<"a", "b", "c", "d", "e", "f", "g", "h", "i", "j", "k", "l", "m",
      "n", "o", "p", "q", "r", "s", "t", "u", "v", "w", "x", "y", "z">>

UpperLetters == {UpperCase[i] : i \in 1..Len(UpperCase)}

\* char::to_ascii_lowercase
ToLowerChar(c) ==
    IF c \in UpperLetters
    THEN LowerCase[CHOOSE i \in 1..Len(UpperCase) : UpperCase[i] = c]
    ELSE c

\* str::to_ascii_lowercase
RECURSIVE ToLower(_)
ToLower(s) ==
    IF s = << >> THEN << >> ELSE <<ToLowerChar(Head(s))>> \o ToLower(Tail(s))

\* The schemes the url crate parses by rules of their own, apart from file.
SpecialSchemes ==
    { <<"h", "t", "t", "p">>, <<"h", "t", "t", "p", "s">>, <<"w", "s">>,
      <<"w", "s", "s">>, <<"f", "t", "p">> }

\* Length of the scheme of s (a letter, then letters, digits, "+", "-" and
\* ".", before ":"), 0 when s does not start with a scheme.
SchemeLen(s) ==
    LET i == Find(s, <<":">>)
    IN  IF i > 1 /\ s[1] \in Letters \cup UpperLetters
             /\ \A j \in 1..(i - 1) :
                   s[j] \in Letters \cup UpperLetters \cup Digits
                               \cup {"+", "-", "."}
        THEN i - 1
        ELSE 0

\* The parser drops every tab, CR and LF of its input.
RECURSIVE RemoveTabNewline(_)
RemoveTabNewline(s) ==
    IF s = << >> THEN << >>
    ELSE (IF Head(s) \in {"\t", "\r", "\n"} THEN << >> ELSE <<Head(s)>>)
            \o RemoveTabNewline(Tail(s))

\* Percent-encoding of the characters that are encoded somewhere.
PercentCode(c) ==
    CASE c = " " -> <<"%", "2", "0">>
      [] c = "\"" -> <<"%", "2", "2">>
      [] c = "'" -> <<"%", "2", "7">>
      [] c = "<" -> <<"%", "3", "C">>
      [] c = ">" -> <<"%", "3", "E">>
      [] c = Backtick -> <<"%", "6", "0">>
      [] c = "{" -> <<"%", "7", "B">>
      [] c = "}" -> <<"%", "7", "D">>

\* The text s as the parser writes it: tab, CR and LF dropped, the
\* characters of set percent-encoded.
RECURSIVE PercentEncode(_, _)
PercentEncode(s, set) ==
    IF s = << >> THEN << >>
    ELSE (IF Head(s) \in {"\t", "\r", "\n"} THEN << >>
          ELSE IF Head(s) \in set THEN PercentCode(Head(s))
          ELSE <<Head(s)>>)
            \o PercentEncode(Tail(s), set)

\* Index of the first character of s at or after i that is in set cs;
\* Len(s) + 1 if none.
RECURSIVE FindAnyFrom(_, _, _)
FindAnyFrom(s, cs, i) ==
    IF i > Len(s) THEN Len(s) + 1
    ELSE IF s[i] \in cs THEN i
    ELSE FindAnyFrom(s, cs, i + 1)

\* The text t that follows the authority, before its "?", and after it.
RawPathOf(t) == SubSeq(t, 1, FindAnyFrom(t, {"?"}, 1) - 1)

RawQueryOf(t) ==
    LET q == FindAnyFrom(t, {"?"}, 1)
    IN  IF q > Len(t) THEN None ELSE Some(SubSeq(t, q + 1, Len(t)))

\* Path and query of the text t that follows the authority, as parsed:
\* blank, quotation mark, "<", ">", grave accent, "{" and "}" are encoded in
\* a path, the first four of them in a query.
PathOf(t) ==
    PercentEncode(RawPathOf(t), {" ", "\"", "<", ">", Backtick, "{", "}"})

QueryOf(t) ==
    IF IsSome(RawQueryOf(t))
    THEN Some(PercentEncode(Unwrap(RawQueryOf(t)), {" ", "\"", "<", ">"}))
    ELSE None

\* The query of the text t in an address of the scheme: with a special
\* scheme "'" is encoded too.
QueryIn(scheme, t) ==
    IF scheme \notin SpecialSchemes THEN QueryOf(t)
    ELSE IF IsSome(RawQueryOf(t))
    THEN Some(PercentEncode(Unwrap(RawQueryOf(t)),
                            {" ", "\"", "<", ">", "'"}))
    ELSE None

\* The host of an address whose scheme is not special is rejected when it
\* holds a character forbidden in a host; a host in brackets has to be an
\* IPv6 address, which none without ":" is.
HostOk(h) ==
    \A j \in 1..Len(h) :
        h[j] \notin {" ", "\t", "\r", "\n", "<", ">", "[", "]", "^", "|"}

\* The part of an address after "scheme:" when it starts with "//".  With a
\* special scheme the path is "/" where the text has none.
ParseAfterDoubleSlash(scheme, t) ==
    LET e == FindAnyFrom(t, {"/", "?"}, 3)
        h == SubSeq(t, 3, e - 1)
        rest == SubSeq(t, e, Len(t))
    IN  IF ~HostOk(h) THEN UrlErr
        ELSE IF scheme \in SpecialSchemes
        THEN UrlOk(MkUrl(scheme, h,
                         IF PathOf(rest) = << >> THEN <<"/">>
                         ELSE PathOf(rest),
                         QueryIn(scheme, rest)))
        ELSE UrlOk(MkUrl(scheme, h, PathOf(rest), QueryOf(rest)))

\* Url::parse: an absolute address.  Leading and trailing blanks and every
\* tab, CR and LF are dropped and the scheme is lower-cased; a text without a
\* scheme is an error (relative URL without a base).  Without "//" the
\* address has no host, and its path is kept as it is unless it starts with
\* "/".
UrlParse(s) ==
    LET t == RemoveTabNewline(Trim(s))
        n == SchemeLen(t)
        scheme == ToLower(SubSeq(t, 1, n))
        after == SubSeq(t, n + 2, Len(t))
    IN  IF n = 0 THEN UrlErr
        ELSE IF StartsWith(after, <<"/", "/">>)
        THEN ParseAfterDoubleSlash(scheme, after)
        ELSE UrlOk(MkUrl(scheme, << >>,
                         IF StartsWith(after, <<"/">>) THEN PathOf(after)
                         ELSE RawPathOf(after),
                         QueryOf(after)))

\* Index of the last "/" of path p; 0 if none.
RECURSIVE LastSlash(_)
LastSlash(p) ==
    IF p = << >> THEN 0
    ELSE IF p[Len(p)] = "/" THEN Len(p)
    ELSE LastSlash(SubSeq(p, 1, Len(p) - 1))

\* Url::cannot_be_a_base: the address has no "//" after its scheme and its
\* path does not start with "/".
CannotBeABase(b) == b.host = << >> /\ ~StartsWith(b.path, <<"/">>)

\* Url::join: resolve reference s against base b.  A reference without a
\* scheme cannot be resolved against an address that cannot be a base.
UrlJoin(b, s) ==
    LET t == RemoveTabNewline(Trim(s))
    IN  IF SchemeLen(t) > 0 THEN UrlParse(t)
        ELSE IF CannotBeABase(b) THEN UrlErr
        ELSE IF StartsWith(t, <<"/", "/">>)
        THEN ParseAfterDoubleSlash(b.scheme, t)
        ELSE IF t = << >> THEN UrlOk(b)
        ELSE IF t[1] = "/"
        THEN UrlOk([b EXCEPT !.path = PathOf(t),
                             !.query = QueryIn(b.scheme, t)])
        ELSE IF t[1] = "?"
        THEN UrlOk([b EXCEPT !.query = QueryIn(b.scheme, t)])
        ELSE UrlOk([b EXCEPT
                      !.path = SubSeq(b.path, 1, LastSlash(b.path))
                                  \o (IF b.path = << >> THEN <<"/">>
                                      ELSE << >>)
                                  \o PathOf(t),
                      !.query = QueryIn(b.scheme, t)])

\* Percent-encoding of one character of a query: tab, CR and LF are
\* dropped, and blank, quotation mark, "<" and ">" are encoded.
QueryEncodeChar(c) == PercentEncode(<<c>>, {" ", "\"", "<", ">"})

RECURSIVE QueryEncode(_)
QueryEncode(s) ==
    IF s = << >> THEN << >>
    ELSE QueryEncodeChar(Head(s)) \o QueryEncode(Tail(s))

\* Url::set_query(Some(text)): replaces the query by the encoded text.
UrlSetQuery(u, text) ==
    [u EXCEPT !.query =
        Some(IF u.scheme \in SpecialSchemes
             THEN PercentEncode(text, {" ", "\"", "<", ">", "'"})
             ELSE QueryEncode(text))]

-----------------------------------------------------------------------------
(* GemspaceNav                                                             *)

\* A navigation history value.
Nav(g, p) == [gemspaces |-> g, position |-> p]

\* GemspaceNav::new
NavNew(url) == Nav(<<url>>, 0)

\* Vec::remove(index) with a 0-based index; the caller checks the bound.
VecRemove(v, index) == SubSeq(v, 1, index) \o SubSeq(v, index + 2, Len(v))

\* The for_each of push: Vec::remove(pos) for pos = from, from+1, .., to-1 on
\* the shrinking vector.  Vec::remove panics when pos is out of bounds, and
\* the vector is left as the removals before the panic made it.
RECURSIVE RemoveEach(_, _, _)
RemoveEach(v, from, to) ==
    IF from >= to THEN [vec |-> v, panicked |-> FALSE]
    ELSE IF from >= Len(v) THEN [vec |-> v, panicked |-> TRUE]
    ELSE RemoveEach(VecRemove(v, from), from + 1, to)

\* A push that keeps the entries after the cursor.
NavPushKeepForward(nav, url) ==
    [nav |-> Nav(Append(nav.gemspaces, url), nav.position + 1),
     panicked |-> FALSE]

\* GemspaceNav::push.  Returns the history and whether the call panicked.
NavPush(nav, url) ==
    LET len == Len(nav.gemspaces)
        r == RemoveEach(nav.gemspaces, nav.position + 1, len)
    IN  IF r.panicked
        THEN [nav |-> Nav(r.vec, nav.position), panicked |-> TRUE]
        ELSE [nav |-> Nav(Append(r.vec, url), nav.position + 1),
              panicked |-> FALSE]

\* GemspaceNav::current.  Vec::get(position) is None out of bounds, and the
\* expect then panics.
NavCurrentOpt(nav) ==
    IF nav.position < Len(nav.gemspaces)
    THEN Some(nav.gemspaces[nav.position + 1])
    ELSE None

NavCurrent(nav) == Unwrap(NavCurrentOpt(nav))

\* The 1-based guard of the older history, applied to the 0-based cursor.
NavBackFromOne(nav) ==
    IF nav.position > 1 THEN Nav(nav.gemspaces, nav.position - 1) ELSE nav

\* GemspaceNav::back
NavBack(nav) ==
    IF nav.position > 0 THEN Nav(nav.gemspaces, nav.position - 1) ELSE nav

Min(a, b) == IF a <= b THEN a ELSE b

\* The 1-based clamp of the older history, applied to the 0-based cursor.
NavAdvanceToLen(nav) ==
    Nav(nav.gemspaces, Min(Len(nav.gemspaces), nav.position + 1))

\* GemspaceNav::advance
NavAdvance(nav) ==
    Nav(nav.gemspaces, Min(Len(nav.gemspaces) - 1, nav.position + 1))

-----------------------------------------------------------------------------
(* Client: one request and the classification of its reply.                *)

Gemini == <<"g", "e", "m", "i", "n", "i">>

\* The cap of the reply's remainder: read.take(1024 * 1024 * 8).
BodyCap == 8388608

\* The result of Client::request: Ok(response), Err(error), or no return at
\* all when the recursion on redirects uses up the stack of the process.
ROk(resp) == [kind |-> "Ok", resp |-> resp]

RErr(e) == [kind |-> "Err", err |-> e]

ROverflow == [kind |-> "Overflow"]

\* String::from_utf8 succeeds: no byte of b is the invalid byte.
Utf8Valid(b) == \A i \in 1..Len(b) : b[i] # "<FF>"

\* Url::domain: None for an absent host and for an IP literal in brackets.
UrlDomain(u) ==
    IF u.host = << >> \/ u.host[1] = "[" THEN None ELSE Some(u.host)

\* BufRead::read_until(b' '): the bytes up to and including the first blank,
\* or all of them when there is none.
ReadUntilSpace(bytes) ==
    LET i == Find(bytes, <<" ">>)
    IN  IF i = 0 THEN bytes ELSE SubSeq(bytes, 1, i)

\* Read::take(n).read_to_end: at most n of the bytes that follow.
TakeBytes(bytes, n) == SubSeq(bytes, 1, Min(Len(bytes), n))

\* Cursor::read_line: the bytes up to and including the first line feed.
ReadLine(bytes) ==
    LET i == Find(bytes, <<"\n">>)
    IN  IF i = 0 THEN bytes ELSE SubSeq(bytes, 1, i)

\* An InputStatus conversion with the two sub-codes exchanged.
InputStatusSwapped(value) ==
    LET c == SubSeq(value, 1, 2)
    IN  IF c = <<"1", "0">> THEN Some("Sensitive")
        ELSE IF c = <<"1", "1">> THEN Some("Normal")
        ELSE None

\* TryFrom<&[u8]> for InputStatus, on value[0..2]; None is the Err.
InputStatusTryFrom(value) ==
    LET c == SubSeq(value, 1, 2)
    IN  IF c = <<"1", "0">> THEN Some("Normal")
        ELSE IF c = <<"1", "1">> THEN Some("Sensitive")
        ELSE None

\* A RedirectStatus conversion with the two sub-codes exchanged.
RedirectStatusSwapped(value) ==
    LET c == SubSeq(value, 1, 2)
    IN  IF c = <<"3", "0">> THEN Some("Permanent")
        ELSE IF c = <<"3", "1">> THEN Some("Temporary")
        ELSE None

\* TryFrom<&[u8]> for RedirectStatus
RedirectStatusTryFrom(value) ==
    LET c == SubSeq(value, 1, 2)
    IN  IF c = <<"3", "0">> THEN Some("Temporary")
        ELSE IF c = <<"3", "1">> THEN Some("Permanent")
        ELSE None

\* TryFrom<&[u8]> for TemporaryFailureStatus
TemporaryFailureStatusTryFrom(value) ==
    LET c == SubSeq(value, 1, 2)
    IN  IF c = <<"4", "0">> THEN Some("Unspecified")
        ELSE IF c = <<"4", "1">> THEN Some("ServerUnavailable")
        ELSE IF c = <<"4", "2">> THEN Some("CGIError")
        ELSE IF c = <<"4", "3">> THEN Some("ProxyError")
        ELSE IF c = <<"4", "4">> THEN Some("SlowDown")
        ELSE None

\* TryFrom<&[u8]> for PermanentFailureStatus
PermanentFailureStatusTryFrom(value) ==
    LET c == SubSeq(value, 1, 2)
    IN  IF c = <<"5", "0">> THEN Some("Unspecified")
        ELSE IF c = <<"5", "1">> THEN Some("NotFound")
        ELSE IF c = <<"5", "2">> THEN Some("Gone")
        ELSE IF c = <<"5", "3">> THEN Some("ProxyRequestRefused")
        ELSE IF c = <<"5", "9">> THEN Some("BadRequest")
        ELSE None

\* TryFrom<&[u8]> for ClientCertificateErrorStatus
ClientCertificateErrorStatusTryFrom(value) ==
    LET c == SubSeq(value, 1, 2)
    IN  IF c = <<"6", "0">> THEN Some("Required")
        ELSE IF c = <<"6", "1">> THEN Some("NotAuthorized")
        ELSE IF c = <<"6", "2">> THEN Some("NotValid")
        ELSE None

\* An arm selection by the leading digit alone, for any second digit.
MatchArmByLeadingDigit(token) ==
    IF Len(token) = 3 /\ token[2] \in Digits /\ token[3] = " "
    THEN CASE token[1] = "1" -> "Input"
           [] token[1] = "2" -> "Success"
           [] token[1] = "3" -> "Redirect"
           [] token[1] = "4" -> "TemporaryFailure"
           [] token[1] = "5" -> "PermanentFailure"
           [] token[1] = "6" -> "ClientCertificateError"
           [] OTHER -> "other"
    ELSE "other"

\* The arm of `match status.as_slice()` that the status token selects.
MatchArm(token) ==
    IF token \in {<<"1", d, " ">> : d \in {"0", "1"}} THEN "Input"
    ELSE IF token = <<"2", "0", " ">> THEN "Success"
    ELSE IF token \in {<<"3", d, " ">> : d \in {"0", "1"}} THEN "Redirect"
    ELSE IF token \in {<<"4", d, " ">> : d \in {"0", "1", "2", "3", "4"}}
    THEN "TemporaryFailure"
    ELSE IF token \in {<<"5", d, " ">> : d \in {"0", "1", "2", "3", "9"}}
    THEN "PermanentFailure"
    ELSE IF token \in {<<"6", d, " ">> : d \in {"0", "1", "2"}}
    THEN "ClientCertificateError"
    ELSE "other"

\* A message that is kept as sent, blanks and line ends included.
ErrorMsgUntrimmed(buffer) ==
    IF buffer = << >> THEN None ELSE Some(buffer)

\* The optional message of the failure arms: None when the trimmed text is empty.
ErrorMsg(buffer) ==
    IF Trim(buffer) = << >> THEN None ELSE Some(Trim(buffer))

\* The failure arms (4x, 5x, 6x): status sub-code, then message.
FailureResult(variant, statusOpt, errKind, buffer) ==
    IF ~IsSome(statusOpt) THEN RErr(errKind)
    ELSE IF ~Utf8Valid(buffer) THEN RErr("FromUtf8Error")
    ELSE ROk([variant |-> variant, status |-> Unwrap(statusOpt),
              error_msg |-> ErrorMsg(buffer)])

\* The body of `match status.as_slice()` for every arm but the followed
\* redirect: the result of the call, or for a redirect the parsed target in
\* a Redirect response.
MatchStatus(token, buffer) ==
    LET arm == MatchArm(token)
    IN  CASE arm = "Input" ->
                IF ~IsSome(InputStatusTryFrom(token))
                THEN RErr("Invalid input status")
                ELSE IF ~Utf8Valid(buffer) THEN RErr("FromUtf8Error")
                ELSE ROk([variant |-> "Input",
                          status |-> Unwrap(InputStatusTryFrom(token)),
                          prompt |-> Trim(buffer)])
          [] arm = "Success" ->
                LET header == ReadLine(buffer)
                    body == SubSeq(buffer, Len(header) + 1, Len(buffer))
                IN  IF ~Utf8Valid(header) \/ ~Utf8Valid(body)
                    THEN RErr("InvalidData")
                    ELSE ROk([variant |-> "Success", mime |-> Trim(header),
                              body |-> body])
          [] arm = "Redirect" ->
                IF ~IsSome(RedirectStatusTryFrom(token))
                THEN RErr("Invalid input status")
                ELSE IF ~Utf8Valid(buffer) THEN RErr("FromUtf8Error")
                ELSE IF ~UrlParse(Trim(buffer)).ok THEN RErr("ParseError")
                ELSE ROk([variant |-> "Redirect",
                          status |-> Unwrap(RedirectStatusTryFrom(token)),
                          url |-> UrlParse(Trim(buffer)).url])
          [] arm = "TemporaryFailure" ->
                FailureResult("TemporaryFailure",
                              TemporaryFailureStatusTryFrom(token),
                              "Invalid temporary failure status", buffer)
          [] arm = "PermanentFailure" ->
                FailureResult("PermanentFailure",
                              PermanentFailureStatusTryFrom(token),
                              "Invalid permanent failure status", buffer)
          [] arm = "ClientCertificateError" ->
                FailureResult("ClientCertificateError",
                              ClientCertificateErrorStatusTryFrom(token),
                              "Invalid client certificate status", buffer)
          [] OTHER -> RErr("Invalid response code")

\* The labels of a host name: the texts between its dots.
RECURSIVE Labels(_)
Labels(h) ==
    LET i == Find(h, <<".">>)
    IN  IF i = 0 THEN <<h>>
        ELSE <<SubSeq(h, 1, i - 1)>> \o Labels(SubSeq(h, i + 1, Len(h)))

\* A text of digits only, and not empty.
IsNumber(l) == l # << >> /\ \A i \in 1..Len(l) : l[i] \in Digits

\* The longest label and the longest name of the DNS.
MaxLabelLength == 63

MaxNameLength == 253

\* A label of a DNS name: letters, digits, "_" and "-", at most 63, neither
\* starting nor ending with "-".
LabelOk(l) ==
    /\ l # << >>
    /\ Len(l) <= MaxLabelLength
    /\ \A i \in 1..Len(l) :
          l[i] \in Letters \cup UpperLetters \cup Digits \cup {"_", "-"}
    /\ l[1] # "-"
    /\ l[Len(l)] # "-"

\* DnsName::try_from: labels separated by dots, one dot allowed at the end,
\* the last label not a number.
DnsNameOk(h) ==
    LET ls == Labels(h)
        n == IF Len(ls) > 1 /\ ls[Len(ls)] = << >> THEN Len(ls) - 1
             ELSE Len(ls)
    IN  /\ Len(h) <= MaxNameLength
        /\ \A i \in 1..n : LabelOk(ls[i])
        /\ ~IsNumber(ls[n])

\* An IPv4 address: four numbers up to 255 without leading zeros.
Ipv4Ok(h) ==
    LET ls == Labels(h)
    IN  /\ Len(ls) = 4
        /\ \A i \in 1..4 :
              /\ IsNumber(ls[i])
              /\ Len(ls[i]) <= 3
              /\ DigitsValue(ls[i]) <= 255
              /\ Len(ls[i]) > 1 => ls[i][1] # "0"

\* ServerName::try_from(domain.to_string()): the domain is a DNS name or an
\* IP address.
ServerNameOk(domain) == DnsNameOk(domain) \/ Ipv4Ok(domain)

\* The mark that ends a reply the peer cut: the bytes before it arrive and
\* the connection is then closed without close_notify.
CutMark == "<CUT>"

\* The reply was cut.
IsCut(bytes) == bytes # << >> /\ bytes[Len(bytes)] = CutMark

\* The bytes of a reply that arrive.
Received(bytes) ==
    IF IsCut(bytes) THEN SubSeq(bytes, 1, Len(bytes) - 1) ELSE bytes

\* What the hop-th connection of a call yields: the server repeats its
\* replies in a cycle.
ReplyAt(replies, hop) == replies[((hop - 1) % Len(replies)) + 1]

\* The status read from a reply and what follows it in the bytes that arrive.
StatusRead(bytes) == ReadUntilSpace(Received(bytes))

AfterStatus(bytes) ==
    SubSeq(Received(bytes), Len(StatusRead(bytes)) + 1, Len(Received(bytes)))

\* A read of the reply fails: the peer cut it before the blank that ends the
\* status, or after it and before the cap of the body was reached.
ReadFails(bytes) ==
    /\ IsCut(bytes)
    /\ \/ ~Contains(Received(bytes), <<" ">>)
       \/ Len(AfterStatus(bytes)) < BodyCap

\* The bytes of a reply that the client reads: the status and no more than
\* the cap after it.
Consumed(bytes) ==
    StatusRead(bytes) \o TakeBytes(AfterStatus(bytes), BodyCap)

\* Client::request(url) from connection number hop on.  replies holds what
\* the connections yield, in a cycle: None when connecting or the handshake
\* fails, so that nothing is sent; Some(bytes) for a reply, which ends with
\* CutMark when the peer cuts it.  A call that is redirected by every reply
\* recurses, each pending call holding its connection, until the process
\* runs out of open files or of stack after MaxOpen connections: ROverflow.
RECURSIVE RequestFrom(_, _, _, _)
RequestFrom(url, replies, follow, hop) ==
    IF url.scheme # Gemini THEN RErr("Invalid scheme")
    ELSE IF ~IsSome(UrlDomain(url)) THEN RErr("Missing domain")
    ELSE IF ~ServerNameOk(Unwrap(UrlDomain(url)))
    THEN RErr("InvalidDnsNameError")
    ELSE IF hop > MaxOpen THEN ROverflow
    ELSE IF ~IsSome(ReplyAt(replies, hop)) THEN RErr("io")
    ELSE IF ReadFails(Unwrap(ReplyAt(replies, hop))) THEN RErr("io")
    ELSE
        LET bytes == Unwrap(ReplyAt(replies, hop))
            token == StatusRead(bytes)
            buffer == TakeBytes(AfterStatus(bytes), BodyCap)
            r == MatchStatus(token, buffer)
        IN  IF r.kind = "Ok" /\ r.resp.variant = "Redirect" /\ follow
            THEN RequestFrom(r.resp.url, replies, follow, hop + 1)
            ELSE r

\* Client::request.  ROverflow stands for the call that ran out of a
\* resource; Outcomes gives what comes of it.
Request(url, replies, follow) ==
    RequestFrom(url, replies, follow, 1)

\* What a call of request comes to.  Where the process runs out of a
\* resource, its limits decide: with no file left to open the next connect
\* fails and the call returns the io error; with no stack left the process
\* is aborted and the call never returns (ROverflow).
Outcomes(r) == IF r = ROverflow THEN {ROverflow, RErr("io")} ELSE {r}

\* The port connected to when the address names none.
DefaultPort == 1965

\* url.set_path("/") when the path is empty.
WithRootPath(url) ==
    IF url.path = << >> THEN [url EXCEPT !.path = <<"/">>] ELSE url

\* A request line that is the address as it was given, its path left empty.
RequestLineWhole(url) == UrlAsStr(url)

\* tls.write_all(url.as_str().as_bytes()), after the path was set.
RequestLine(url) == UrlAsStr(WithRootPath(url))

\* What one request does with the network, in order: TcpStream::connect to
\* "{domain}:{port}", the two writes, the flush, and the bytes read: the
\* status and no more than the cap after it.  The handshake is made by the
\* first write: when connecting or the handshake fails (reply None), the
\* connect is all that is recorded.
Connection(url, reply) ==
    LET port == IF IsSome(UrlPort(url)) THEN Unwrap(UrlPort(url))
                ELSE DefaultPort
        open == [op |-> "connect",
                 bytes |-> Unwrap(UrlDomain(url)) \o <<":">>
                              \o ToDigits(port)]
    IN  IF ~IsSome(reply) THEN <<open>>
        ELSE << open,
                [op |-> "write", bytes |-> RequestLine(url)],
                [op |-> "write", bytes |-> <<"\r", "\n">>],
                [op |-> "flush", bytes |-> << >>],
                [op |-> "read", bytes |-> Consumed(Unwrap(reply))] >>

\* The connections of Client::request(url) from connection number hop on,
\* one per call of request that passes the checks of the address.  The call
\* made when MaxOpen connections carried a request is the one in which the
\* process runs out of a resource; connects tells whether it got as far as
\* TcpStream::connect, of which the connect is then all that is recorded.
RECURSIVE ConnectionsFrom(_, _, _, _, _)
ConnectionsFrom(url, replies, follow, hop, connects) ==
    IF \/ url.scheme # Gemini
       \/ ~IsSome(UrlDomain(url))
       \/ ~ServerNameOk(Unwrap(UrlDomain(url)))
    THEN << >>
    ELSE IF hop > MaxOpen
    THEN IF connects THEN <<Connection(url, None)>> ELSE << >>
    ELSE
        LET r == RequestFrom(url, <<ReplyAt(replies, hop)>>, FALSE, 1)
        IN  <<Connection(url, ReplyAt(replies, hop))>>
               \o (IF r.kind = "Ok" /\ r.resp.variant = "Redirect" /\ follow
                   THEN ConnectionsFrom(r.resp.url, replies, follow, hop + 1,
                                        connects)
                   ELSE << >>)

\* The connections of one call of Client::request.
Connections(url, replies, follow, connects) ==
    ConnectionsFrom(url, replies, follow, 1, connects)

\* What one call of Client::request comes to: its result and its
\* connections.  Where the recursion on redirects uses up the process, its
\* build and its limits decide where: the stack runs out in
\* ClientConnection::new, before the connect of the call, or in the
\* handshake, after it, and the process is aborted; or no file is left to
\* open, the connect fails and the call returns the io error.
CallOutcomes(url, replies, follow) ==
    LET r == Request(url, replies, follow)
    IN  IF r = ROverflow
        THEN {[result |-> ROverflow,
               conns |-> Connections(url, replies, follow, c)] :
                 c \in BOOLEAN}
               \cup {[result |-> RErr("io"),
                      conns |-> Connections(url, replies, follow, TRUE)]}
        ELSE {[result |-> r,
               conns |-> Connections(url, replies, follow, FALSE)]}

-----------------------------------------------------------------------------
(* Content                                                                 *)

\* Body::String(text) and Body::Bytes(bytes)
BodyString(text) == [kind |-> "String", data |-> text]

BodyBytes(bytes) == [kind |-> "Bytes", data |-> bytes]

MkContent(mime, body) == [mime |-> mime, body |-> body]

TextSlash == <<"t", "e", "x", "t", "/">>

\* A classification that keeps text that is not UTF-8 as bytes.
ContentFromMimeLossy(mime, bytes) ==
    IF StartsWith(mime, TextSlash) /\ Utf8Valid(bytes)
    THEN [ok |-> TRUE, content |-> MkContent(mime, BodyString(bytes))]
    ELSE [ok |-> TRUE, content |-> MkContent(mime, BodyBytes(bytes))]

\* Content::from_mime_and_bytes: Ok(content), or the Err of String::from_utf8.
ContentFromMimeAndBytes(mime, bytes) ==
    IF StartsWith(mime, TextSlash)
    THEN IF Utf8Valid(bytes)
         THEN [ok |-> TRUE, content |-> MkContent(mime, BodyString(bytes))]
         ELSE [ok |-> FALSE]
    ELSE [ok |-> TRUE, content |-> MkContent(mime, BodyBytes(bytes))]

-----------------------------------------------------------------------------
(* GemTextParser                                                           *)

\* A line split that takes a blank line after the line along with it.
NextLineAndBlank(raw_text) ==
    LET i == Find(raw_text, <<"\n">>)
    IN  IF i = 0
        THEN [line |-> raw_text, rest |-> << >>]
        ELSE IF i < Len(raw_text) /\ raw_text[i + 1] = "\n"
        THEN [line |-> SubSeq(raw_text, 1, i - 1),
              rest |-> SubSeq(raw_text, i + 2, Len(raw_text))]
        ELSE [line |-> SubSeq(raw_text, 1, i - 1),
              rest |-> SubSeq(raw_text, i + 1, Len(raw_text))]

\* str::split_once("\n") on the remaining text, or the whole of it.
NextLine(raw_text) ==
    LET i == Find(raw_text, <<"\n">>)
    IN  IF i = 0
        THEN [line |-> raw_text, rest |-> << >>]
        ELSE [line |-> SubSeq(raw_text, 1, i - 1),
              rest |-> SubSeq(raw_text, i + 1, Len(raw_text))]

\* A split of the link line at its last whitespace.
SplitLinkAtLast(link_line) ==
    LET t == Trim(link_line)
        ws == {i \in 1..Len(t) : IsWhitespace(t[i])}
    IN  IF ws = {}
        THEN [link |-> link_line, text |-> << >>]
        ELSE LET i == CHOOSE k \in ws : \A j \in ws : j <= k
             IN  [link |-> SubSeq(t, 1, i - 1),
                  text |-> SubSeq(t, i + 1, Len(t))]

\* The (link, text) of a link line: the trimmed line split at its first
\* whitespace, or the untrimmed line and "" when it has none.
SplitLink(link_line) ==
    LET t == Trim(link_line)
        i == FindWhitespaceFrom(t, 1)
    IN  IF i = 0
        THEN [link |-> link_line, text |-> << >>]
        ELSE [link |-> SubSeq(t, 1, i - 1), text |-> SubSeq(t, i + 1, Len(t))]

\* A line parse that trims the text lines.
ParseLineTrimmedText(line, url) ==
    IF StartsWith(line, <<"=", ">">>)
    THEN LET sl == SplitLink(SubSeq(line, 3, Len(line)))
             target == IF ~Contains(sl.link, <<":", "/", "/">>)
                       THEN UrlJoin(url, Trim(sl.link))
                       ELSE UrlParse(Trim(sl.link))
         IN  IF target.ok
             THEN [kind |-> "Link", url |-> target.url, text |-> sl.text]
             ELSE [kind |-> "Err"]
    ELSE IF StartsWith(line, <<Backtick, Backtick, Backtick>>)
    THEN [kind |-> "PreFormatted", text |-> SubSeq(line, 4, Len(line))]
    ELSE [kind |-> "Text", text |-> Trim(line)]

\* The element GemTextParser::parse_next makes of one line; kind "Err" is the
\* Err of a link whose address does not resolve.
ParseLine(line, url) ==
    IF StartsWith(line, <<"=", ">">>)
    THEN LET sl == SplitLink(SubSeq(line, 3, Len(line)))
             target == IF ~Contains(sl.link, <<":", "/", "/">>)
                       THEN UrlJoin(url, Trim(sl.link))
                       ELSE UrlParse(Trim(sl.link))
         IN  IF target.ok
             THEN [kind |-> "Link", url |-> target.url, text |-> sl.text]
             ELSE [kind |-> "Err"]
    ELSE IF StartsWith(line, <<Backtick, Backtick, Backtick>>)
    THEN [kind |-> "PreFormatted", text |-> SubSeq(line, 4, Len(line))]
    ELSE [kind |-> "Text", text |-> line]

\* The elements the iterator yields: next() until the remaining text is empty.
RECURSIVE GemTextParse(_, _)
GemTextParse(raw_text, url) ==
    IF raw_text = << >> THEN << >>
    ELSE <<ParseLine(NextLine(raw_text).line, url)>>
            \o GemTextParse(NextLine(raw_text).rest, url)

\* A link selection that stops at the first line that failed to parse.
RECURSIVE LinkUrlsUntilErr(_)
LinkUrlsUntilErr(elems) ==
    IF elems = << >> \/ Head(elems).kind = "Err" THEN << >>
    ELSE IF Head(elems).kind = "Link"
    THEN <<Head(elems).url>> \o LinkUrlsUntilErr(Tail(elems))
    ELSE LinkUrlsUntilErr(Tail(elems))

\* The addresses of the Link elements, in order (flatten, then filter_map).
RECURSIVE LinkUrls(_)
LinkUrls(elems) ==
    IF elems = << >> THEN << >>
    ELSE IF Head(elems).kind = "Link"
    THEN <<Head(elems).url>> \o LinkUrls(Tail(elems))
    ELSE LinkUrls(Tail(elems))

-----------------------------------------------------------------------------
(* App: the session                                                        *)

\* The display loop of render over the elements of a text/gemini page: the
\* lines pushed onto `lines`, with n_links links numbered before them.  An
\* Err element is skipped with `continue`.
RECURSIVE RenderElems(_, _)
RenderElems(elems, n_links) ==
    IF elems = << >> THEN << >>
    ELSE LET e == Head(elems)
         IN  CASE e.kind = "Err" -> RenderElems(Tail(elems), n_links)
               [] e.kind = "Text" ->
                     <<[style |-> "raw", text |-> e.text]>>
                        \o RenderElems(Tail(elems), n_links)
               [] e.kind = "PreFormatted" ->
                     <<[style |-> "gray", text |-> e.text]>>
                        \o RenderElems(Tail(elems), n_links)
               [] e.kind = "Link" ->
                     <<[style |-> IF e.url.scheme = Gemini
                                  THEN "blue" ELSE "red",
                        text |-> <<"[">> \o ToDigits(n_links)
                                    \o <<"]", " ">> \o e.text]>>
                        \o RenderElems(Tail(elems), n_links + 1)

\* The vector `lines` that render builds for a text/gemini body and hands to
\* the Paragraph widget.  What the widget then does with it (wrapping with
\* trim, which drops the leading blanks of a row, and scrolling by
\* self.scroll) is not part of the model.
RenderGemText(body, url) == RenderElems(GemTextParse(body, url), 0)

\* The links the display loop of render numbers, with n_links numbered before
\* them: the number shown in brackets and the address of the link.
RECURSIVE NumberedLinks(_, _)
NumberedLinks(elems, n_links) ==
    IF elems = << >> THEN << >>
    ELSE IF Head(elems).kind = "Link"
    THEN <<[n |-> n_links, url |-> Head(elems).url]>>
            \o NumberedLinks(Tail(elems), n_links + 1)
    ELSE NumberedLinks(Tail(elems), n_links)

\* The numbered links of the lines render builds for the content: those of a
\* text body whose mime starts with "text/gemini"; any other text is handed
\* to the widget as it is, and for bytes and an absent content no text of
\* the page is.
ShownLinks(shown, current) ==
    IF IsSome(shown) /\ Unwrap(shown).body.kind = "String"
          /\ StartsWith(Unwrap(shown).mime,
                        TextSlash \o <<"g", "e", "m", "i", "n", "i">>)
    THEN NumberedLinks(GemTextParse(Unwrap(shown).body.data, current), 0)
    ELSE << >>

\* AppStatus
Loading == [tag |-> "Loading", text |-> << >>]

Browsing == [tag |-> "Browsing", text |-> << >>]

Typing(text) == [tag |-> "Typing", text |-> text]

Input(text) == [tag |-> "Input", text |-> text]

\* str::parse::<usize>: an optional "+", then one or more digits (texts short
\* enough not to overflow); None is the Err.
ParseUsize(text) ==
    LET ds == IF text # << >> /\ text[1] = "+" THEN Tail(text) ELSE text
    IN  IF ds # << >> /\ \A i \in 1..Len(ds) : ds[i] \in Digits
        THEN Some(DigitsValue(ds))
        ELSE None

\* "gemini://"
GeminiPrefix == Gemini \o <<":", "/", "/">>

\* The initial address of App::new: gemini://tlgs.one/
StartUrl ==
    MkUrl(Gemini, <<"t", "l", "g", "s", ".", "o", "n", "e">>, <<"/">>, None)

\* A resolution that takes a number without a link of that number as a
\* relative address.
ResolveTypedFallsThrough(text, shown, current) ==
    IF /\ IsSome(ParseUsize(text))
       /\ IsSome(shown)
       /\ Unwrap(shown).body.kind = "String"
       /\ Unwrap(ParseUsize(text))
              < Len(LinkUrls(GemTextParse(Unwrap(shown).body.data, current)))
    THEN [act |-> "push",
          url |-> LinkUrls(GemTextParse(Unwrap(shown).body.data, current))
                      [Unwrap(ParseUsize(text)) + 1]]
    ELSE IF StartsWith(text, GeminiPrefix)
    THEN IF UrlParse(text).ok
         THEN [act |-> "push", url |-> UrlParse(text).url]
         ELSE [act |-> "error"]
    ELSE IF UrlJoin(current, text).ok
    THEN [act |-> "push", url |-> UrlJoin(current, text).url]
    ELSE [act |-> "error"]

\* What Enter resolves the typed text to (App::run, Typing):
\*   "push" with the address, "nothing" (no such link), or "error".
ResolveTyped(text, shown, current) ==
    IF IsSome(ParseUsize(text))
    THEN IF ~IsSome(shown) \/ Unwrap(shown).body.kind # "String"
         THEN [act |-> "nothing"]
         ELSE LET links == LinkUrls(GemTextParse(Unwrap(shown).body.data,
                                                 current))
                  n == Unwrap(ParseUsize(text))
              IN  IF n < Len(links)
                  THEN [act |-> "push", url |-> links[n + 1]]
                  ELSE [act |-> "nothing"]
    ELSE IF StartsWith(text, GeminiPrefix)
    THEN IF UrlParse(text).ok
         THEN [act |-> "push", url |-> UrlParse(text).url]
         ELSE [act |-> "error"]
    ELSE IF UrlJoin(current, text).ok
         THEN [act |-> "push", url |-> UrlJoin(current, text).url]
         ELSE [act |-> "error"]

\* The page shown for a prompt: Content{mime: "text/plain", body: prompt}.
PromptPageAsGemini(prompt) ==
    MkContent(TextSlash \o <<"g", "e", "m", "i", "n", "i">>, BodyString(prompt))

PromptPage(prompt) ==
    MkContent(TextSlash \o <<"p", "l", "a", "i", "n">>, BodyString(prompt))

\* A load that shows an empty page for whatever it cannot handle.
LoadSiteLenient(app, r) ==
    IF r.kind = "Ok" /\ r.resp.variant = "Success"
    THEN [app EXCEPT !.content = Some(ContentFromMimeAndBytes(
                                          r.resp.mime, r.resp.body).content),
                     !.status = Browsing]
    ELSE IF r.kind = "Ok" /\ r.resp.variant = "Input"
    THEN [app EXCEPT !.content = Some(PromptPage(r.resp.prompt)),
                     !.status = Input(<< >>)]
    ELSE [app EXCEPT !.status = Browsing]

\* A load that shows the page of a Success reply and stays in Loading.
LoadSiteKeepsLoading(app, r) ==
    IF r.kind = "Overflow" THEN [app EXCEPT !.exit = "abort"]
    ELSE IF r.kind = "Err" THEN [app EXCEPT !.exit = "error"]
    ELSE IF r.resp.variant = "Success"
    THEN LET c == ContentFromMimeAndBytes(r.resp.mime, r.resp.body)
         IN  IF c.ok
             THEN [app EXCEPT !.content = Some(c.content)]
             ELSE [app EXCEPT !.exit = "error"]
    ELSE IF r.resp.variant = "Input"
    THEN [app EXCEPT !.content = Some(PromptPage(r.resp.prompt)),
                     !.status = Input(<< >>)]
    ELSE [app EXCEPT !.exit = "panic"]

\* App::load_site, given the result r of client.request(current()).  app holds
\* the fields content, status and exit of the session.
LoadSite(app, r) ==
    IF r.kind = "Overflow" THEN [app EXCEPT !.exit = "abort"]
    ELSE IF r.kind = "Err" THEN [app EXCEPT !.exit = "error"]
    ELSE IF r.resp.variant = "Success"
    THEN LET c == ContentFromMimeAndBytes(r.resp.mime, r.resp.body)
         IN  IF c.ok
             THEN [app EXCEPT !.content = Some(c.content), !.status = Browsing]
             ELSE [app EXCEPT !.exit = "error"]
    ELSE IF r.resp.variant = "Input"
    THEN [app EXCEPT !.content = Some(PromptPage(r.resp.prompt)),
                     !.status = Input(<< >>)]
    ELSE [app EXCEPT !.exit = "panic"]

\* The session fields as one value.
App(nav, c, sc, st, ex) ==
    [nav |-> nav, content |-> c, scroll |-> sc, status |-> st, exit |-> ex]

\* An entry into Loading that keeps the scroll offset.
SetStatusKeepScroll(app) ==
    [app EXCEPT !.status = Loading, !.content = None]

\* An entry into Loading that keeps the content.
SetStatusKeepContent(app) ==
    [app EXCEPT !.scroll = <<0, 0>>, !.status = Loading]

\* App::set_status_to_loading
SetStatusToLoading(app) ==
    [app EXCEPT !.scroll = <<0, 0>>, !.status = Loading, !.content = None]

\* App::push_url: a panic of push ends the session where it stands.
PushUrl(app, url) ==
    LET r == NavPush(app.nav, url)
    IN  IF r.panicked
        THEN [app EXCEPT !.nav = r.nav, !.exit = "panic"]
        ELSE SetStatusToLoading([app EXCEPT !.nav = r.nav])

\* App::run, status Typing, key Enter.
TypingEnter(app) ==
    LET res == ResolveTyped(app.status.text, app.content, NavCurrent(app.nav))
    IN  CASE res.act = "push" -> PushUrl(app, res.url)
          [] res.act = "nothing" -> app
          [] res.act = "error" -> [app EXCEPT !.exit = "error"]

\* An answer that is pushed without the back() before it.
InputEnterNoBack(app) ==
    PushUrl(app, UrlSetQuery(NavCurrent(app.nav), app.status.text))

\* App::run, status Input, key Enter.
InputEnter(app) ==
    LET url == UrlSetQuery(NavCurrent(app.nav), app.status.text)
    IN  PushUrl([app EXCEPT !.nav = NavBack(app.nav)], url)

\* u16::saturating_add and u16::saturating_sub
U16Max == 65535

SaturatingAdd(a, b) == IF a + b > U16Max THEN U16Max ELSE a + b

SaturatingSub(a, b) == IF a - b < 0 THEN 0 ELSE a - b

\* The heights the terminal has when a page key is pressed: 2 rows and 4 rows.
Heights == {2, 4}

\* `terminal::size()?.1 - 3` on u16: the step, or for a height below 3 what
\* the build makes of the overflow: a panic where overflow is checked, the
\* wrapped difference where it is not.
PageStep(height) ==
    IF height >= 3
    THEN {[panicked |-> FALSE, step |-> height - 3]}
    ELSE {[panicked |-> TRUE, step |-> 0],
          [panicked |-> FALSE, step |-> (height - 3) % (U16Max + 1)]}

\* The vertical offsets the session is followed at: near 0 and near the
\* largest u16.
InScrollRange(v) == v <= MaxScroll \/ v >= U16Max - MaxScroll

-----------------------------------------------------------------------------
(* The navigation history on its own: any sequence of push, back and       *)
(* advance on a history created with one address.                          *)

\* Addresses pushed in SpecNav: gemini://h/a, gemini://h/b, gemini://h/d.
NavUrls ==
    {MkUrl(Gemini, <<"h">>, <<"/", c>>, None) : c \in {"a", "b", "d"}}

vars ==
    <<gemspaces, position, exit, content, scroll, status, auto_redirect,
      call, lastEv, navLog, navPrev, applied, rows>>

\* The fields of the App and of its Client, and what is recorded of them.
appVars ==
    <<content, scroll, status, auto_redirect, call, lastEv, applied, rows>>

TheNav == Nav(gemspaces, position)

\* A call of Client::request: its address, what the connections it opens
\* yield, and, once it has returned, its result and what it did on each
\* connection it opened.
Call(url, replies, result, conns) ==
    [url |-> url, replies |-> replies, result |-> result, conns |-> conns]

\* No call made yet.
NoCall == Call(StartUrl, << >>, None, << >>)

\* App::new
InitApp ==
    /\ gemspaces = NavNew(StartUrl).gemspaces
    /\ position = NavNew(StartUrl).position
    /\ content = None
    /\ scroll = <<0, 0>>
    /\ status = Loading
    /\ auto_redirect = TRUE
    /\ exit = "running"
    /\ call = NoCall
    /\ lastEv = "new"
    /\ applied = None
    /\ rows = None
    /\ navLog = << >>
    /\ navPrev = NavNew(StartUrl)

\* The call just made joins the log, which keeps the newest MaxLog calls.
Logged(op, arg) ==
    LET l == Append(navLog, [op |-> op, arg |-> arg])
    IN  IF Len(l) > MaxLog THEN Tail(l) ELSE l

InitNav ==
    /\ \E u \in NavUrls :
          /\ gemspaces = NavNew(u).gemspaces
          /\ position = NavNew(u).position
          /\ navPrev = NavNew(u)
    /\ exit = "running"
    /\ navLog = << >>
    /\ content = None
    /\ scroll = <<0, 0>>
    /\ status = Loading
    /\ auto_redirect = TRUE
    /\ call = NoCall
    /\ lastEv = "new"
    /\ applied = None
    /\ rows = None

\* nav.push(url)
DoPush(url) ==
    /\ exit = "running"
    /\ Len(gemspaces) < MaxHist \/ position + 1 < Len(gemspaces)
    /\ LET r == NavPush(TheNav, url)
       IN  /\ gemspaces' = r.nav.gemspaces
           /\ position' = r.nav.position
           /\ exit' = IF r.panicked THEN "panic" ELSE "running"
    /\ navLog' = Logged("push", Some(url))
    /\ navPrev' = TheNav
    /\ UNCHANGED appVars

\* nav.back()
DoBack ==
    /\ exit = "running"
    /\ gemspaces' = NavBack(TheNav).gemspaces
    /\ position' = NavBack(TheNav).position
    /\ navLog' = Logged("back", None)
    /\ navPrev' = TheNav
    /\ UNCHANGED <<exit, appVars>>

\* nav.advance()
DoAdvance ==
    /\ exit = "running"
    /\ gemspaces' = NavAdvance(TheNav).gemspaces
    /\ position' = NavAdvance(TheNav).position
    /\ navLog' = Logged("advance", None)
    /\ navPrev' = TheNav
    /\ UNCHANGED <<exit, appVars>>

NextNav ==
    \/ \E url \in NavUrls : DoPush(url)
    \/ DoBack
    \/ DoAdvance

SpecNav == InitNav /\ [][NextNav]_vars

-----------------------------------------------------------------------------
(* The session: App::run from App::new on.  Each step is one pass of the   *)
(* loop: a load when the status is Loading, or the handling of one key.    *)

\* What the servers answer.  Each value is the replies of the connections one
\* load opens, in order.
\*   "20 text/gemini\r\n=> /a A\nt\n=> //[\n=>gemini://tlgs.one/b\n"
ReplyGeminiPage ==
    <<"2", "0", " ", "t", "e", "x", "t", "/", "g", "e", "m", "i", "n", "i",
      "\r", "\n", "=", ">", " ", "/", "a", " ", "A", "\n", "t", "\n", "=",
      ">", " ", "/", "/", "[", "\n", "=", ">", "g", "e", "m", "i", "n",
      "i", ":", "/", "/", "t", "l", "g", "s", ".", "o", "n", "e", "/", "b",
      "\n">>

\*   "10 q\r\n"
ReplyPrompt ==
    <<"1", "0", " ", "q", "\r", "\n">>

\*   "20 image/png\r\nx"
ReplyBinary ==
    <<"2", "0", " ", "i", "m", "a", "g", "e", "/", "p", "n", "g", "\r",
      "\n", "x">>

\*   "20 text/plain\r\nhi"
ReplyPlain ==
    <<"2", "0", " ", "t", "e", "x", "t", "/", "p", "l", "a", "i", "n",
      "\r", "\n", "h", "i">>

\*   "20 text/plain\r\n=> /a\n"
ReplyPlainLinks ==
    <<"2", "0", " ", "t", "e", "x", "t", "/", "p", "l", "a", "i", "n",
      "\r", "\n", "=", ">", " ", "/", "a", "\n">>

\*   "51 \r\n"
ReplyNotFound ==
    <<"5", "1", " ", "\r", "\n">>

\*   "30 gemini://tlgs.one/a\r\n"
ReplyRedirect ==
    <<"3", "0", " ", "g", "e", "m", "i", "n", "i", ":", "/", "/", "t", "l",
      "g", "s", ".", "o", "n", "e", "/", "a", "\r", "\n">>

\*   "30 gemini://tlgs.one/d/\r\n"
ReplyRedirectDeep ==
    <<"3", "0", " ", "g", "e", "m", "i", "n", "i", ":", "/", "/", "t", "l",
      "g", "s", ".", "o", "n", "e", "/", "d", "/", "\r", "\n">>

\*   "20 text/gemini\r\n=> c\n"
ReplyRelativeLink ==
    <<"2", "0", " ", "t", "e", "x", "t", "/", "g", "e", "m", "i", "n", "i",
      "\r", "\n", "=", ">", " ", "c", "\n">>

\*   "99 "
ReplyBadCode ==
    <<"9", "9", " ">>

SessionReplies ==
    { <<Some(ReplyGeminiPage)>>, <<Some(ReplyPrompt)>>, <<Some(ReplyBinary)>>,
      <<Some(ReplyPlainLinks)>>,
      <<Some(ReplyNotFound)>>, <<Some(ReplyBadCode)>>, <<None>>,
      <<Some(ReplyRedirect), Some(ReplyPlain)>>, <<Some(ReplyRedirect)>>,
      <<Some(ReplyRedirectDeep), Some(ReplyRelativeLink)>> }

\* What the user types in Typing before Enter: "", "0", "1", "2",
\* "gemini://tlgs.one/a", "gemini://[", "b", "//[".
TypedWords ==
    { << >>, <<"0">>, <<"1">>, <<"2">>, <<"b">>, <<"/", "/", "[">>,
      GeminiPrefix \o StartUrl.host \o <<"/", "a">>, GeminiPrefix \o <<"[">> }

\* What the user answers to a prompt before Enter: "a b".
InputWords == { <<"a", " ", "b">> }

\* Text t is on the way to a word of ws.
IsPrefixOfSome(t, ws) ==
    \E w \in ws : Len(t) <= Len(w) /\ SubSeq(w, 1, Len(t)) = t

\* The characters of the keys pressed.
KeyChars ==
    {"0", "1", "2", "a", "b", "/", "[", "g", "e", "m", "i", "n", ":", "t",
     "l", "s", ".", "o", " "}

TheApp == App(TheNav, content, scroll, status, exit)

\* The session becomes app after step ev, which read the terminal's height
\* as read, if it did.
BecomesReading(app, ev, read) ==
    /\ gemspaces' = app.nav.gemspaces
    /\ position' = app.nav.position
    /\ content' = app.content
    /\ scroll' = app.scroll
    /\ status' = app.status
    /\ exit' = app.exit
    /\ lastEv' = ev
    /\ rows' = read
    /\ UNCHANGED <<auto_redirect, navLog, navPrev, applied>>

\* The session becomes app after step ev.
Becomes(app, ev) == BecomesReading(app, ev, None)

\* The history may still take a push: it is short, or the push discards.
MayPush(nav) ==
    Len(nav.gemspaces) < MaxHist \/ nav.position + 1 < Len(nav.gemspaces)

\* A load that records the address last requested, the target of a followed
\* redirect, as the current entry of the history.
StepLoadSiteAtTarget ==
    /\ exit = "running"
    /\ status.tag = "Loading"
    /\ \E replies \in SessionReplies :
       \E o \in CallOutcomes(NavCurrent(TheNav), replies, auto_redirect) :
         LET url == NavCurrent(TheNav)
             r == o.result
             conns == o.conns
             last == IF conns # << >> /\ Len(conns[Len(conns)]) > 1
                     THEN UrlParse(conns[Len(conns)][2].bytes).url
                     ELSE url
             app == LoadSite(TheApp, r)
         IN  /\ Becomes([app EXCEPT
                            !.nav = Nav([app.nav.gemspaces EXCEPT
                                            ![app.nav.position + 1] = last],
                                        app.nav.position)],
                        "load")
             /\ call' = Call(url, replies, Some(r), conns)

\* if matches!(self.status, AppStatus::Loading) { self.load_site()?; }
StepLoadSite ==
    /\ exit = "running"
    /\ status.tag = "Loading"
    /\ \E replies \in SessionReplies :
         LET url == NavCurrent(TheNav)
         IN  \E o \in CallOutcomes(url, replies, auto_redirect) :
                 /\ Becomes(LoadSite(TheApp, o.result), "load")
                 /\ call' = Call(url, replies, Some(o.result), o.conns)

\* `terminal::size()?` fails in the handler of key ev: run returns the error.
SizeFails(ev) == Becomes([TheApp EXCEPT !.exit = "error"], ev)

\* `terminal.draw(..)?`, `event::poll(..)?` or `event::read()?` fails: run
\* returns the error.  In Loading it is the draw before load_site.
TerminalFails ==
    /\ exit = "running"
    /\ Becomes([TheApp EXCEPT !.exit = "error"], "terminal")
    /\ UNCHANGED call

\* Browsing, KeyCode::Esc
BrowsingEsc ==
    /\ exit = "running"
    /\ status.tag = "Browsing"
    /\ Becomes([TheApp EXCEPT !.exit = "quit"], "Browsing/Esc")
    /\ UNCHANGED call

\* Browsing, KeyCode::PageUp
BrowsingPageUp ==
    /\ exit = "running"
    /\ status.tag = "Browsing"
    /\ \/ \E height \in Heights :
             \E o \in PageStep(height) :
                 /\ InScrollRange(SaturatingSub(scroll[1], o.step))
                 /\ BecomesReading(
                        IF o.panicked
                        THEN [TheApp EXCEPT !.exit = "panic"]
                        ELSE [TheApp EXCEPT
                                 !.scroll[1] =
                                    SaturatingSub(scroll[1], o.step)],
                        "Browsing/PageUp", Some(height))
       \/ SizeFails("Browsing/PageUp")
    /\ UNCHANGED call

\* Browsing, KeyCode::PageDown
BrowsingPageDown ==
    /\ exit = "running"
    /\ status.tag = "Browsing"
    /\ \/ \E height \in Heights :
             \E o \in PageStep(height) :
                 /\ InScrollRange(SaturatingAdd(scroll[1], o.step))
                 /\ BecomesReading(
                        IF o.panicked
                        THEN [TheApp EXCEPT !.exit = "panic"]
                        ELSE [TheApp EXCEPT
                                 !.scroll[1] =
                                    SaturatingAdd(scroll[1], o.step)],
                        "Browsing/PageDown", Some(height))
       \/ SizeFails("Browsing/PageDown")
    /\ UNCHANGED call

\* Browsing, KeyCode::Up
BrowsingUp ==
    /\ exit = "running"
    /\ status.tag = "Browsing"
    /\ InScrollRange(SaturatingSub(scroll[1], 1))
    /\ Becomes([TheApp EXCEPT !.scroll[1] = SaturatingSub(scroll[1], 1)],
               "Browsing/Up")
    /\ UNCHANGED call

\* Browsing, KeyCode::Down
BrowsingDown ==
    /\ exit = "running"
    /\ status.tag = "Browsing"
    /\ InScrollRange(SaturatingAdd(scroll[1], 1))
    /\ Becomes([TheApp EXCEPT !.scroll[1] = SaturatingAdd(scroll[1], 1)],
               "Browsing/Down")
    /\ UNCHANGED call

\* Browsing, KeyCode::Char('i')
BrowsingI ==
    /\ exit = "running"
    /\ status.tag = "Browsing"
    /\ Becomes([TheApp EXCEPT !.status = Typing(<< >>)], "Browsing/i")
    /\ UNCHANGED call

\* Browsing, KeyCode::Char('<')
BrowsingBack ==
    /\ exit = "running"
    /\ status.tag = "Browsing"
    /\ Becomes(SetStatusToLoading([TheApp EXCEPT !.nav = NavBack(TheNav)]),
               "Browsing/<")
    /\ UNCHANGED call

\* Browsing, KeyCode::Char('>')
BrowsingAdvance ==
    /\ exit = "running"
    /\ status.tag = "Browsing"
    /\ Becomes(SetStatusToLoading([TheApp EXCEPT !.nav = NavAdvance(TheNav)]),
               "Browsing/>")
    /\ UNCHANGED call

\* Browsing, any other key: `_ => {}`
BrowsingOther ==
    /\ exit = "running"
    /\ status.tag = "Browsing"
    /\ Becomes(TheApp, "Browsing/other")
    /\ UNCHANGED call

\* Typing, any other key: `_ => {}`
TypingOther ==
    /\ exit = "running"
    /\ status.tag = "Typing"
    /\ Becomes(TheApp, "Typing/other")
    /\ UNCHANGED call

\* Input, any other key: `_ => {}`
InputOther ==
    /\ exit = "running"
    /\ status.tag = "Input"
    /\ Becomes(TheApp, "Input/other")
    /\ UNCHANGED call

\* A cancel in Typing that also clears the page.
TypingEscClearing ==
    /\ exit = "running"
    /\ status.tag = "Typing"
    /\ Becomes([TheApp EXCEPT !.status = Browsing, !.content = None],
               "Typing/Esc")
    /\ UNCHANGED call

\* Typing, KeyCode::Esc
TypingEsc ==
    /\ exit = "running"
    /\ status.tag = "Typing"
    /\ Becomes([TheApp EXCEPT !.status = Browsing], "Typing/Esc")
    /\ UNCHANGED call

\* Typing, KeyCode::Char(c)
TypingChar(c) ==
    /\ exit = "running"
    /\ status.tag = "Typing"
    /\ IsPrefixOfSome(Append(status.text, c), TypedWords)
    /\ Becomes([TheApp EXCEPT !.status = Typing(Append(status.text, c))],
               "Typing/Char")
    /\ UNCHANGED call

\* Typing, KeyCode::Enter
StepTypingEnter ==
    /\ exit = "running"
    /\ status.tag = "Typing"
    /\ status.text \in TypedWords
    /\ MayPush(TheNav)
    /\ Becomes(TypingEnter(TheApp), "Typing/Enter")
    /\ UNCHANGED call

\* A cancel in Input that goes back to the page.
InputEscToBrowsing ==
    /\ exit = "running"
    /\ status.tag = "Input"
    /\ Becomes([TheApp EXCEPT !.status = Browsing], "Input/Esc")
    /\ UNCHANGED call

\* Input, KeyCode::Esc
InputEsc ==
    /\ exit = "running"
    /\ status.tag = "Input"
    /\ Becomes([TheApp EXCEPT !.status = Input(<< >>)], "Input/Esc")
    /\ UNCHANGED call

\* Input, KeyCode::Char(c)
InputChar(c) ==
    /\ exit = "running"
    /\ status.tag = "Input"
    /\ IsPrefixOfSome(Append(status.text, c), InputWords)
    /\ Becomes([TheApp EXCEPT !.status = Input(Append(status.text, c))],
               "Input/Char")
    /\ UNCHANGED call

\* Input, KeyCode::Enter
StepInputEnter ==
    /\ exit = "running"
    /\ status.tag = "Input"
    /\ status.text \in InputWords
    /\ MayPush(NavBack(TheNav))
    /\ Becomes(InputEnter(TheApp), "Input/Enter")
    /\ UNCHANGED call

Next ==
    \/ StepLoadSite
    \/ TerminalFails
    \/ BrowsingEsc
    \/ BrowsingPageUp
    \/ BrowsingPageDown
    \/ BrowsingOther
    \/ TypingOther
    \/ InputOther
    \/ BrowsingUp
    \/ BrowsingDown
    \/ BrowsingI
    \/ BrowsingBack
    \/ BrowsingAdvance
    \/ TypingEsc
    \/ \E c \in KeyChars : TypingChar(c)
    \/ StepTypingEnter
    \/ InputEsc
    \/ \E c \in KeyChars : InputChar(c)
    \/ StepInputEnter

Spec == InitApp /\ [][Next]_vars

-----------------------------------------------------------------------------
(* The client on its own: one call of Client::request on an address, for   *)
(* either setting of auto_redirect and the replies of a server.            *)

\* The addresses requested: gemini://tlgs.one/, gemini://tlgs.one with an
\* empty path, gemini://tlgs.one:1966/, gemini://-a/, whose host is no DNS
\* name, http://tlgs.one/, gemini://[::1]/ and gemini:///, which has no host.
ClientUrls ==
    { StartUrl,
      MkUrl(Gemini, <<"-", "a">>, <<"/">>, None),
      MkUrl(Gemini, StartUrl.host, << >>, None),
      UrlWithPort(StartUrl, 1966),
      MkUrl(<<"h", "t", "t", "p">>, StartUrl.host, <<"/">>, None),
      MkUrl(Gemini, <<"[", ":", ":", "1", "]">>, <<"/">>, None),
      MkUrl(Gemini, << >>, <<"/">>, None) }

\* How replies start: every two-digit code and a blank, and "2 ", "200 ",
\* "20" and "20\r\n".
StatusTokens ==
    {<<a, b, " ">> : a \in Digits, b \in Digits}
        \cup { <<"2", " ">>, <<"2", "0", "0", " ">>, <<"2", "0">>,
               <<"2", "0", "\r", "\n">> }

\* How replies go on: "", " \r\n", "text/gemini\r\nhi\n",
\* "gemini://tlgs.one/a\r\n", "no\r\n", "\xFF\r\n" and "image/png\r\n\xFF".
Remainders ==
    { << >>,
      <<" ", "\r", "\n">>,
      <<"t", "e", "x", "t", "/", "g", "e", "m", "i", "n", "i",
         "\r", "\n", "h", "i", "\n">>,
      <<"g", "e", "m", "i", "n", "i", ":", "/", "/", 
        "t", "l", "g", "s", ".", "o", "n", "e", "/", "a", "\r", "\n">>,
      <<"n", "o", "\r", "\n">>,
      <<"<FF>", "\r", "\n">>,
      <<"i", "m", "a", "g", "e", "/", "p", "n", "g", "\r", "\n", "<FF>">> }

ClientReplies == {t \o r : t \in StatusTokens, r \in Remainders}

\* "31 gemini://tlgs.one/a\r\n"
ReplyRedirectPermanent ==
    <<"3", "1", " ">> \o SubSeq(ReplyRedirect, 4, Len(ReplyRedirect))

\* "30 Gemini://-a/b c\r\n": a redirect to gemini://-a/b%20c, whose host is
\* no DNS name.
ReplyRedirectBadName ==
    <<"3", "0", " ", "G", "e", "m", "i", "n", "i", ":", "/", "/", "-", "a",
      "/", "b", " ", "c", "\r", "\n">>

\* The replies of the connections of one call, in order.
ClientChains ==
    {<<Some(x)>> : x \in ClientReplies}
        \cup {<<None>>, <<Some(Append(ReplyPlain, CutMark))>>,
              <<Some(ReplyRedirectBadName), Some(ReplyPlain)>>}
        \cup {<<Some(x), y>> :
                x \in {ReplyRedirect, ReplyRedirectPermanent},
                y \in {Some(ReplyPlain), Some(ReplyNotFound),
                       Some(ReplyRedirect), None}}

InitClient ==
    /\ auto_redirect \in BOOLEAN
    /\ \E url \in ClientUrls, replies \in ClientChains :
          call = Call(url, replies, None, << >>)
    /\ gemspaces = NavNew(StartUrl).gemspaces
    /\ position = NavNew(StartUrl).position
    /\ content = None
    /\ scroll = <<0, 0>>
    /\ status = Loading
    /\ exit = "running"
    /\ lastEv = "new"
    /\ applied = None
    /\ rows = None
    /\ navLog = << >>
    /\ navPrev = NavNew(StartUrl)

\* client.request(url)
ClientRequest ==
    /\ call.result = None
    /\ \E o \in CallOutcomes(call.url, call.replies, auto_redirect) :
          call' = Call(call.url, call.replies, Some(o.result), o.conns)
    /\ lastEv' = "request"
    /\ UNCHANGED <<gemspaces, position, exit, content, scroll, status,
                   auto_redirect, navLog, navPrev, applied, rows>>

NextClient == ClientRequest

SpecClient == InitClient /\ [][NextClient]_vars

-----------------------------------------------------------------------------
(* The classifier on its own: Content::from_mime_and_bytes on a mime and   *)
(* bytes.                                                                  *)

\* The session and the client at rest, for the functions applied on their own.
AtRest ==
    /\ gemspaces = NavNew(StartUrl).gemspaces
    /\ position = NavNew(StartUrl).position
    /\ navPrev = NavNew(StartUrl)
    /\ navLog = << >>
    /\ exit = "running"
    /\ content = None
    /\ scroll = <<0, 0>>
    /\ status = Loading
    /\ auto_redirect = TRUE
    /\ call = NoCall
    /\ lastEv = "new"
    /\ rows = None

\* The mimes classified: "text/gemini", "text/plain", "text/", "image/png",
\* "", "Text/x" and " text/plain".
Mimes ==
    { TextSlash \o <<"g", "e", "m", "i", "n", "i">>,
      TextSlash \o <<"p", "l", "a", "i", "n">>,
      TextSlash,
      <<"i", "m", "a", "g", "e", "/", "p", "n", "g">>,
      << >>,
      <<"T", "e", "x", "t", "/", "x">>,
      <<" ">> \o TextSlash \o <<"p", "l", "a", "i", "n">> }

\* The bytes classified: "a", a line feed and the byte 0xFF.
SomeBytes == {"a", "\n", "<FF>"}

RECURSIVE SeqsUpTo(_, _)
SeqsUpTo(S, n) ==
    IF n = 0 THEN {<< >>}
    ELSE LET shorter == SeqsUpTo(S, n - 1)
         IN  shorter \cup {Append(q, x) : q \in shorter, x \in S}

InitContent ==
    /\ AtRest
    /\ \E mime \in Mimes, bytes \in SeqsUpTo(SomeBytes, MaxBytes) :
          applied = Some([mime |-> mime, bytes |-> bytes, result |-> None])

\* Content::from_mime_and_bytes(mime, bytes)
ClassifyContent ==
    /\ Unwrap(applied).result = None
    /\ applied' = Some([Unwrap(applied) EXCEPT
                           !.result = Some(ContentFromMimeAndBytes(
                                               Unwrap(applied).mime,
                                               Unwrap(applied).bytes))])
    /\ UNCHANGED <<gemspaces, position, exit, content, scroll, status,
                   auto_redirect, call, lastEv, navLog, navPrev, rows>>

NextContent == ClassifyContent

SpecContent == InitContent /\ [][NextContent]_vars

-----------------------------------------------------------------------------
(* The markup parser on its own: a document parsed against a base address, *)
(* its links selected and its lines displayed.                             *)

\* The lines documents are made of: "=> /a/b label", "=>b", "=> //[",
\* "=> gemini://h/c  two", three grave accents and "p", "t", " t " and "".
GemLines ==
    { <<"=", ">", " ", "/", "a", "/", "b", " ", "l", "a", "b", "e", "l">>,
      <<"=", ">", "b">>,
      <<"=", ">", " ", "/", "/", "[">>,
      <<"=", ">", " ">> \o GeminiPrefix \o <<"h", "/", "c", " ", " ",
                                             "t", "w", "o">>,
      <<Backtick, Backtick, Backtick, "p">>,
      <<"t">>,
      <<" ", "t", " ">>,
      << >> }

\* The base addresses: gemini://host/dir/ and gemini://tlgs.one/.
GemBases ==
    { MkUrl(Gemini, <<"h", "o", "s", "t">>, <<"/", "d", "i", "r", "/">>, None),
      StartUrl }

\* The lines joined with line feeds, and one more at the end if asked for.
RECURSIVE JoinLines(_, _)
JoinLines(lines, trailing) ==
    IF lines = << >> THEN << >>
    ELSE IF Len(lines) = 1
    THEN Head(lines) \o (IF trailing THEN <<"\n">> ELSE << >>)
    ELSE Head(lines) \o <<"\n">> \o JoinLines(Tail(lines), trailing)

InitGemText ==
    /\ AtRest
    /\ \E lines \in SeqsUpTo(GemLines, MaxLines), trailing \in BOOLEAN,
          url \in GemBases :
          applied = Some([raw_text |-> JoinLines(lines, trailing),
                          url |-> url, result |-> None])

\* GemTextParser::new(raw_text, url) run to its end, as the numeric link
\* selection and the display loop run it.
ParseGemText ==
    /\ Unwrap(applied).result = None
    /\ LET a == Unwrap(applied)
           elems == GemTextParse(a.raw_text, a.url)
       IN  applied' = Some([a EXCEPT !.result =
                               Some([elems |-> elems,
                                     links |-> LinkUrls(elems),
                                     shown |-> RenderGemText(a.raw_text,
                                                             a.url)])])
    /\ UNCHANGED <<gemspaces, position, exit, content, scroll, status,
                   auto_redirect, call, lastEv, navLog, navPrev, rows>>

NextGemText == ParseGemText

SpecGemText == InitGemText /\ [][NextGemText]_vars

-----------------------------------------------------------------------------
(* Properties of the navigation history (SpecNav).                         *)

\* The last navigation call; LastOp is "" before the first call.
LastCall == navLog[Len(navLog)]

LastOp == IF navLog = << >> THEN "" ELSE LastCall.op

\* The entries of history nav up to and including its cursor.
UpToCursor(nav) == SubSeq(nav.gemspaces, 1, nav.position + 1)

\* C1 (as claimed): every push(a), with any number of entries after the
\* cursor, completes and leaves the entries up to and including the old
\* cursor followed by a, with the cursor on a.
C1_PushKeepsPrefixAppends ==
    LastOp = "push" =>
        /\ exit = "running"
        /\ gemspaces = Append(UpToCursor(navPrev), Unwrap(LastCall.arg))
        /\ position = Len(gemspaces) - 1

\* C2: after any sequence of push, back and advance on a history created
\* with one address, the sequence is non-empty and the cursor designates an
\* existing entry (1 <= position + 1 <= length), so current() finds an entry.
C2_CursorInRange ==
    /\ Len(gemspaces) >= 1
    /\ 1 <= position + 1 /\ position + 1 <= Len(gemspaces)
    /\ IsSome(NavCurrentOpt(TheNav))

\* C2 witness: a full history whose cursor was moved back to the first entry.
C2_Witness ==
    /\ Len(gemspaces) = MaxHist
    /\ position = 0
    /\ LastOp = "back"
    /\ navPrev.position = 1

\* C3: back() moves the cursor one entry toward the start unless it is on the
\* first entry, advance() one entry toward the end unless it is on the last
\* entry, and neither changes the sequence of addresses.
C3_BackAdvanceClamped ==
    /\ LastOp = "back" =>
          /\ gemspaces = navPrev.gemspaces
          /\ position = IF navPrev.position = 0 THEN 0
                        ELSE navPrev.position - 1
    /\ LastOp = "advance" =>
          /\ gemspaces = navPrev.gemspaces
          /\ position = IF navPrev.position = Len(navPrev.gemspaces) - 1
                        THEN navPrev.position
                        ELSE navPrev.position + 1

\* C3 witness: back() from the second of three entries, after an advance().
C3_Witness ==
    /\ Len(navLog) >= 2
    /\ navLog[Len(navLog) - 1].op = "advance"
    /\ LastOp = "back"
    /\ Len(gemspaces) = 3
    /\ navPrev.position = 1
    /\ position = 0

\* C4: right after a completed push(a), current() is a; and after a push(p),
\* one back() and then one advance() bring current() to p again.
C4_PushIsCurrent ==
    /\ (LastOp = "push" /\ exit = "running") =>
          NavCurrent(TheNav) = Unwrap(LastCall.arg)
    /\ ( /\ Len(navLog) >= 3
         /\ navLog[Len(navLog) - 2].op = "push"
         /\ navLog[Len(navLog) - 1].op = "back"
         /\ LastOp = "advance" ) =>
          NavCurrent(TheNav) = Unwrap(navLog[Len(navLog) - 2].arg)

\* C4 witness: push(p), back(), advance() were the last three calls, the
\* push having discarded a forward entry.
C4_Witness ==
    /\ Len(navLog) >= 3
    /\ navLog[Len(navLog) - 2].op = "push"
    /\ navLog[Len(navLog) - 1].op = "back"
    /\ LastOp = "advance"
    /\ Len(gemspaces) = 2
    /\ position = 1
    /\ NavCurrent(TheNav) = Unwrap(navLog[Len(navLog) - 2].arg)

-----------------------------------------------------------------------------
(* Properties of the session (Spec).  lastEv names the step that led to    *)
(* the state and call holds the request of the last load.                  *)

\* The result of the request of the last load.
LoadResult == Unwrap(call.result)

LoadGave(variant) ==
    /\ lastEv = "load"
    /\ LoadResult.kind = "Ok"
    /\ LoadResult.resp.variant = variant

\* C5: a load requests current(); after a Success reply the session holds the
\* Content the classifier builds from (mime, body) and the status is Browsing;
\* after an Input reply it holds Content{"text/plain", Text(prompt)} and the
\* status is Input with an empty buffer.
C5_LoadShowsReply ==
    /\ lastEv = "load" => call.url = NavCurrent(TheNav)
    /\ LoadGave("Success") =>
          LET built == ContentFromMimeAndBytes(LoadResult.resp.mime,
                                               LoadResult.resp.body)
          IN  /\ built.ok
              /\ content = Some(built.content)
              /\ status = Browsing
              /\ exit = "running"
    /\ LoadGave("Input") =>
          /\ content = Some([mime |-> <<"t", "e", "x", "t", "/",
                                        "p", "l", "a", "i", "n">>,
                             body |-> [kind |-> "String",
                                       data |-> LoadResult.resp.prompt]])
          /\ status = Input(<< >>)
          /\ exit = "running"

\* C5 witness: the load of a page reached from a link or a typed address was
\* answered with a prompt.
C5_Witness ==
    /\ LoadGave("Input")
    /\ position > 0
    /\ status = Input(<< >>)
    /\ Unwrap(content).body.data = <<"q">>

\* The last load's request failed or returned neither Success nor Input.
LoadFailed ==
    /\ lastEv = "load"
    /\ ~(LoadResult.kind = "Ok"
            /\ LoadResult.resp.variant \in {"Success", "Input"})

\* C6: after a load whose request fails or returns a variant other than
\* Success and Input the session has ended with a fatal error, its status is
\* neither Browsing nor Input, and no step follows (no request is retried).
C6_FailedLoadIsFatal ==
    /\ [](LoadFailed => /\ exit \in {"error", "panic", "abort"}
                        /\ status = Loading)
    /\ [][~LoadFailed]_vars

\* C6 witness: a page deeper in the history answered with a permanent failure
\* and the session ended.
C6_Witness ==
    /\ LoadFailed
    /\ position > 0
    /\ LoadResult.kind = "Ok"
    /\ LoadResult.resp.variant = "PermanentFailure"
    /\ exit # "running"

\* The step pushed url: the entries up to the cursor, then url, the cursor on
\* it, and the session loading.
Pushed(url) ==
    /\ gemspaces' = Append(UpToCursor(TheNav), url)
    /\ position' = Len(gemspaces') - 1
    /\ status' = Loading
    /\ exit' = "running"

\* C7: Enter in Typing(buf) resolves buf as the n-th link of the displayed
\* content if buf is a number n, else as an absolute address if it begins
\* with "gemini://", else relative to current(); a resolved address is pushed
\* and the session enters Loading, a failed parse or join ends the session.
C7_SubmitResolvesAndLoads ==
    [][(status.tag = "Typing" /\ lastEv' = "Typing/Enter") =>
         LET buf == status.text
             cur == NavCurrent(TheNav)
             n == ParseUsize(buf)
             links == IF IsSome(content) /\ Unwrap(content).body.kind = "String"
                      THEN LinkUrls(GemTextParse(Unwrap(content).body.data, cur))
                      ELSE << >>
         IN  IF IsSome(n)
             THEN Unwrap(n) < Len(links) => Pushed(links[Unwrap(n) + 1])
             ELSE IF StartsWith(buf, GeminiPrefix)
             THEN IF UrlParse(buf).ok
                  THEN Pushed(UrlParse(buf).url)
                  ELSE exit' = "error"
             ELSE IF UrlJoin(cur, buf).ok
                  THEN Pushed(UrlJoin(cur, buf).url)
                  ELSE exit' = "error"]_vars

\* C7, apart from the push that fails with two or more forward entries: the
\* same resolution, the session ending where the push panics.
C7_SubmitResolvesUnlessPushPanics ==
    [][(status.tag = "Typing" /\ lastEv' = "Typing/Enter") =>
         LET buf == status.text
             cur == NavCurrent(TheNav)
             n == ParseUsize(buf)
             links == IF IsSome(content) /\ Unwrap(content).body.kind = "String"
                      THEN LinkUrls(GemTextParse(Unwrap(content).body.data, cur))
                      ELSE << >>
             PushedOrPanicked(url) ==
                 IF Len(gemspaces) - (position + 1) >= 2
                 THEN exit' = "panic"
                 ELSE Pushed(url)
         IN  IF IsSome(n)
             THEN IF Unwrap(n) < Len(links)
                  THEN PushedOrPanicked(links[Unwrap(n) + 1])
                  ELSE UNCHANGED <<gemspaces, position, status, exit, content>>
             ELSE IF StartsWith(buf, GeminiPrefix)
             THEN IF UrlParse(buf).ok
                  THEN PushedOrPanicked(UrlParse(buf).url)
                  ELSE exit' = "error"
             ELSE IF UrlJoin(cur, buf).ok
                  THEN PushedOrPanicked(UrlJoin(cur, buf).url)
                  ELSE exit' = "error"]_vars

\* C8: Enter in Input(buf) replaces the prompt's entry by u, current() with
\* buf as its query: the history is the entries before the prompt and then
\* u, the cursor is on u, and the session enters Loading, wherever the
\* prompt's entry is.
C8_AnswerReplacesPrompt ==
    [][(status.tag = "Input" /\ lastEv' = "Input/Enter") =>
         LET u == UrlSetQuery(NavCurrent(TheNav), status.text)
         IN  /\ gemspaces' = Append(SubSeq(gemspaces, 1, position), u)
             /\ position' = Len(gemspaces') - 1
             /\ status' = Loading
             /\ exit' = "running"]_vars

\* C8, where the prompt is the last entry and not the first: there the answer
\* does replace the prompt's entry.
C8_AnswerReplacesLaterPrompt ==
    [][(/\ status.tag = "Input"
        /\ lastEv' = "Input/Enter"
        /\ position > 0
        /\ position = Len(gemspaces) - 1) =>
         LET u == UrlSetQuery(NavCurrent(TheNav), status.text)
         IN  /\ gemspaces' = Append(SubSeq(gemspaces, 1, position), u)
             /\ position' = Len(gemspaces') - 1
             /\ status' = Loading
             /\ exit' = "running"]_vars

-----------------------------------------------------------------------------
(* Properties of the client (SpecClient).                                  *)

\* The call has returned, and it reached a server that sent a reply.
Answered ==
    /\ IsSome(call.result)
    /\ call.url.scheme = Gemini
    /\ IsSome(UrlDomain(call.url))
    /\ ServerNameOk(Unwrap(UrlDomain(call.url)))
    /\ IsSome(call.replies[1])
    /\ ~ReadFails(Unwrap(call.replies[1]))

\* The reply's status, up to and including its first blank, and what follows.
StatusOf == StatusRead(Unwrap(call.replies[1]))

RemainderOf == AfterStatus(Unwrap(call.replies[1]))

CallResult == Unwrap(call.result)

\* The status is two digits and a blank.
TwoDigit ==
    /\ Len(StatusOf) = 3
    /\ StatusOf[1] \in Digits
    /\ StatusOf[2] \in Digits
    /\ StatusOf[3] = " "

\* The result is that of the request a redirect was followed with.
Followed == auto_redirect /\ TwoDigit /\ StatusOf[1] = "3"

\* The Response variant named for a leading digit 1..6.
LeadingVariant(d) ==
    CASE d = "1" -> "Input"
      [] d = "2" -> "Success"
      [] d = "3" -> "Redirect"
      [] d = "4" -> "TemporaryFailure"
      [] d = "5" -> "PermanentFailure"
      [] d = "6" -> "ClientCertificateError"

\* The status table: code, Response variant, sub-code.
StatusTable ==
    { <<"1", "0", "Input", "Normal">>,
      <<"1", "1", "Input", "Sensitive">>,
      <<"2", "0", "Success", "">>,
      <<"3", "0", "Redirect", "Temporary">>,
      <<"3", "1", "Redirect", "Permanent">>,
      <<"4", "0", "TemporaryFailure", "Unspecified">>,
      <<"4", "1", "TemporaryFailure", "ServerUnavailable">>,
      <<"4", "2", "TemporaryFailure", "CGIError">>,
      <<"4", "3", "TemporaryFailure", "ProxyError">>,
      <<"4", "4", "TemporaryFailure", "SlowDown">>,
      <<"5", "0", "PermanentFailure", "Unspecified">>,
      <<"5", "1", "PermanentFailure", "NotFound">>,
      <<"5", "2", "PermanentFailure", "Gone">>,
      <<"5", "3", "PermanentFailure", "ProxyRequestRefused">>,
      <<"5", "9", "PermanentFailure", "BadRequest">>,
      <<"6", "0", "ClientCertificateError", "Required">>,
      <<"6", "1", "ClientCertificateError", "NotAuthorized">>,
      <<"6", "2", "ClientCertificateError", "NotValid">> }

\* The status is a code of the table and a blank.
InTable ==
    /\ TwoDigit
    /\ \E row \in StatusTable : row[1] = StatusOf[1] /\ row[2] = StatusOf[2]

TableRow ==
    CHOOSE row \in StatusTable : row[1] = StatusOf[1] /\ row[2] = StatusOf[2]

InvalidResponseCode == [kind |-> "Err", err |-> "Invalid response code"]

\* C9 as stated: a reply is classified by the leading digit of its two-digit
\* code for every second digit, 1x Input .. 6x ClientCertificateError; any
\* other leading digit fails with the invalid-response-code error.
C9_ByLeadingDigitAnySecond ==
    (Answered /\ TwoDigit) =>
        IF StatusOf[1] \in {"1", "2", "3", "4", "5", "6"}
        THEN /\ CallResult # InvalidResponseCode
             /\ (CallResult.kind = "Ok" /\ ~Followed) =>
                    CallResult.resp.variant = LeadingVariant(StatusOf[1])
        ELSE CallResult = InvalidResponseCode

\* C9 amended: a reply whose two-digit code is one of the table is classified
\* by its leading digit, 1x Input .. 6x ClientCertificateError (a redirect
\* that is followed gives the result of the next request instead); any other
\* two-digit code, whatever its leading digit, fails with the
\* invalid-response-code error and no Response.
C9_ByLeadingDigitInTable ==
    (Answered /\ TwoDigit) =>
        IF InTable
        THEN /\ ~Followed => CallResult # InvalidResponseCode
             /\ (CallResult.kind = "Ok" /\ ~Followed) =>
                    CallResult.resp.variant = LeadingVariant(StatusOf[1])
        ELSE CallResult = InvalidResponseCode

\* C9 witness: a reply with code 12, a leading digit of the table and a second
\* digit outside it, was rejected as an invalid response code.
C9_Witness ==
    /\ Answered
    /\ StatusOf = <<"1", "2", " ">>
    /\ RemainderOf = <<"n", "o", "\r", "\n">>
    /\ CallResult = InvalidResponseCode

\* The first line of the remainder, its line feed included, and what follows.
HeaderOf ==
    IF \E i \in 1..Len(RemainderOf) : RemainderOf[i] = "\n"
    THEN SubSeq(RemainderOf, 1,
                CHOOSE i \in 1..Len(RemainderOf) :
                    /\ RemainderOf[i] = "\n"
                    /\ \A j \in 1..(i - 1) : RemainderOf[j] # "\n")
    ELSE RemainderOf

AfterHeaderOf == SubSeq(RemainderOf, Len(HeaderOf) + 1, Len(RemainderOf))

\* The reply is well formed: a code of the table and a text that is valid
\* UTF-8, which for 20 is the first line of the remainder, the body being
\* any bytes, and for the other codes the remainder, which for a redirect
\* holds an absolute address.
WellFormed ==
    /\ InTable
    /\ IF StatusOf = <<"2", "0", " ">> THEN Utf8Valid(HeaderOf)
       ELSE Utf8Valid(RemainderOf)
    /\ StatusOf[1] = "3" => UrlParse(Trim(RemainderOf)).ok

\* The reply is well formed and all of its remainder is valid UTF-8.
WellFormedText == WellFormed /\ Utf8Valid(RemainderOf)

\* C10: a well-formed reply gives a Response, and a Response has the variant
\* and the sub-code that the status table gives for the reply's code; a
\* status outside the table gives an error and no Response.
C10_SubCodesOfTable ==
    Answered =>
        IF InTable
        THEN ~Followed =>
                /\ WellFormed => CallResult.kind = "Ok"
                /\ CallResult.kind = "Ok" =>
                      /\ CallResult.resp.variant = TableRow[3]
                      /\ TableRow[3] # "Success" =>
                            CallResult.resp.status = TableRow[4]
        ELSE CallResult.kind = "Err"

\* C10, for the replies whose remainder is all valid UTF-8: a well-formed
\* one gives a Response; every Response has the variant and the sub-code of
\* the table; a status outside the table gives an error.
C10_SubCodesOfTextReplies ==
    Answered =>
        IF InTable
        THEN ~Followed =>
                /\ WellFormedText => CallResult.kind = "Ok"
                /\ CallResult.kind = "Ok" =>
                      /\ CallResult.resp.variant = TableRow[3]
                      /\ TableRow[3] # "Success" =>
                            CallResult.resp.status = TableRow[4]
        ELSE CallResult.kind = "Err"

\* A reply "59 no" gave PermanentFailure with sub-code BadRequest
\* and the message "no".
C10_Witness ==
    /\ Answered
    /\ StatusOf = <<"5", "9", " ">>
    /\ CallResult.kind = "Ok"
    /\ CallResult.resp.variant = "PermanentFailure"
    /\ CallResult.resp.status = "BadRequest"
    /\ CallResult.resp.error_msg = <<(<<"n", "o">>)>>

\* C11: a reply with status 20 whose first line is text gives Success with
\* that line, trimmed, as mime and the bytes after it as body, whatever
\* those bytes are, valid UTF-8 or not.
C11_SuccessKeepsBytes ==
    (Answered /\ StatusOf = <<"2", "0", " ">> /\ Utf8Valid(HeaderOf)) =>
        CallResult = [kind |-> "Ok",
                      resp |-> [variant |-> "Success",
                                mime |-> Trim(HeaderOf),
                                body |-> AfterHeaderOf]]

\* C11, for the bodies that are valid UTF-8: those are returned unchanged in
\* Success, with the trimmed first line as mime.
C11_SuccessKeepsTextBytes ==
    (/\ Answered
     /\ StatusOf = <<"2", "0", " ">>
     /\ Utf8Valid(HeaderOf)
     /\ Utf8Valid(AfterHeaderOf)) =>
        CallResult = [kind |-> "Ok",
                      resp |-> [variant |-> "Success",
                                mime |-> Trim(HeaderOf),
                                body |-> AfterHeaderOf]]

\* The reply is a redirect, code 30 or 31.
IsRedirect == StatusOf \in {<<"3", "0", " ">>, <<"3", "1", " ">>}

\* The remainder of a redirect holds an absolute address.
TargetParses == Utf8Valid(RemainderOf) /\ UrlParse(Trim(RemainderOf)).ok

TargetOf == UrlParse(Trim(RemainderOf)).url

\* C12: for a reply 30 or 31 whose trimmed remainder is an absolute address,
\* with auto-follow the result is that of a new request to that address, made
\* on the next connection, and never a Redirect; without auto-follow it is
\* Redirect, permanent iff the code is 31, with that address, and the later
\* connections are not used.  A remainder that is no address fails the call.
C12_RedirectFollowedOrReturned ==
    (Answered /\ IsRedirect) =>
        IF TargetParses
        THEN IF auto_redirect
             THEN /\ CallResult \in
                        Outcomes(RequestFrom(TargetOf, call.replies, TRUE, 2))
                  /\ ~(CallResult.kind = "Ok"
                          /\ CallResult.resp.variant = "Redirect")
             ELSE /\ CallResult =
                        [kind |-> "Ok",
                         resp |-> [variant |-> "Redirect",
                                   status |-> IF StatusOf[2] = "1"
                                              THEN "Permanent"
                                              ELSE "Temporary",
                                   url |-> TargetOf]]
                  /\ CallResult = Request(call.url, <<call.replies[1]>>, FALSE)
        ELSE CallResult.kind = "Err"

\* C12 witness: a reply 31 with auto-follow, and the reply of the second
\* connection, a 51, is the result.
C12_Witness ==
    /\ Answered
    /\ auto_redirect
    /\ StatusOf = <<"3", "1", " ">>
    /\ Len(call.replies) = 2
    /\ CallResult.kind = "Ok"
    /\ CallResult.resp.variant = "PermanentFailure"

\* Every connection of the call yields a redirect that is followed.
AllRedirects ==
    /\ auto_redirect
    /\ \A i \in 1..Len(call.replies) :
          /\ IsSome(call.replies[i])
          /\ LET r == Request(call.url, <<call.replies[i]>>, FALSE)
             IN  r.kind = "Ok" /\ r.resp.variant = "Redirect"

\* C13: a call always returns; when the server answers every request with a
\* redirect, the call returns the redirect-loop error.
C13_RedirectsTerminate ==
    IsSome(call.result) =>
        /\ CallResult.kind \in {"Ok", "Err"}
        /\ AllRedirects =>
              CallResult = [kind |-> "Err", err |-> "RedirectLoopError"]

\* C13, for the servers that do not answer every request with a redirect:
\* the call returns.
C13_ReturnsUnlessAllRedirects ==
    (IsSome(call.result) /\ ~AllRedirects) =>
        CallResult.kind \in {"Ok", "Err"}

InvalidScheme == [kind |-> "Err", err |-> "Invalid scheme"]

MissingDomain == [kind |-> "Err", err |-> "Missing domain"]

\* C14: an address whose scheme is not "gemini" is rejected with the scheme
\* error and one without a host with the address error, whatever the server
\* would reply; an address with the gemini scheme and a host, a domain name
\* or an IP literal, is rejected by neither.
C14_SchemeAndHostChecks ==
    IsSome(call.result) =>
        /\ call.url.scheme # Gemini => CallResult = InvalidScheme
        /\ (call.url.scheme = Gemini /\ call.url.host = << >>) =>
              CallResult = MissingDomain
        /\ (call.url.scheme = Gemini /\ call.url.host # << >>) =>
              \/ CallResult \notin {InvalidScheme, MissingDomain}
              \/ IsSome(call.replies[1]) /\ Followed

\* C14, apart from the IP literal in brackets: the two rejections, and no
\* rejection of an address with the gemini scheme and a domain name.
C14_SchemeAndDomainChecks ==
    IsSome(call.result) =>
        /\ call.url.scheme # Gemini => CallResult = InvalidScheme
        /\ (call.url.scheme = Gemini /\ call.url.host = << >>) =>
              CallResult = MissingDomain
        /\ (/\ call.url.scheme = Gemini
            /\ call.url.host # << >>
            /\ call.url.host[1] # "[") =>
              \/ CallResult \notin {InvalidScheme, MissingDomain}
              \/ IsSome(call.replies[1]) /\ Followed

\* C15: the status read is the first three bytes of the reply, and the bytes
\* read in all are no more than three and the cap on the remainder.
C15_StatusIsThreeBytes ==
    Answered =>
        /\ StatusOf = SubSeq(Unwrap(call.replies[1]), 1,
                             Min(3, Len(Unwrap(call.replies[1]))))
        /\ Len(StatusOf) + Len(TakeBytes(RemainderOf, BodyCap)) <= 3 + BodyCap

\* C15, for the replies whose first blank is their third byte: three bytes
\* of status are read and then no more than the cap.
C15_CappedAfterThreeByteStatus ==
    (/\ Answered
     /\ Len(Unwrap(call.replies[1])) >= 3
     /\ Unwrap(call.replies[1])[3] = " "
     /\ Unwrap(call.replies[1])[1] # " "
     /\ Unwrap(call.replies[1])[2] # " ") =>
        /\ Len(StatusOf) = 3
        /\ Len(StatusOf) + Len(TakeBytes(RemainderOf, BodyCap)) <= 3 + BodyCap

-----------------------------------------------------------------------------
(* Properties of the classifier (SpecContent).                             *)

Classified == IsSome(applied) /\ IsSome(Unwrap(applied).result)

TheMime == Unwrap(applied).mime

TheBytes == Unwrap(applied).bytes

ClassifyResult == Unwrap(Unwrap(applied).result)

\* The mime begins with "text/".
IsTextMime ==
    /\ Len(TheMime) >= 5
    /\ SubSeq(TheMime, 1, 5) = <<"t", "e", "x", "t", "/">>

\* C16: a mime beginning with "text/" with valid UTF-8 bytes gives a Text body
\* equal to the decoding, and with invalid UTF-8 an error and no Content; any
\* other mime gives a Binary body with the bytes unchanged; the mime of a
\* Content is the one given.
C16_ClassifierTotal ==
    Classified =>
        IF IsTextMime
        THEN IF \A i \in 1..Len(TheBytes) : TheBytes[i] # "<FF>"
             THEN ClassifyResult =
                      [ok |-> TRUE,
                       content |-> [mime |-> TheMime,
                                    body |-> [kind |-> "String",
                                              data |-> TheBytes]]]
             ELSE ClassifyResult = [ok |-> FALSE]
        ELSE ClassifyResult =
                 [ok |-> TRUE,
                  content |-> [mime |-> TheMime,
                               body |-> [kind |-> "Bytes",
                                         data |-> TheBytes]]]

\* C16 witness: "text/plain" with bytes holding 0xFF was classified, with an
\* error.
C16_Witness ==
    /\ Classified
    /\ TheMime = <<"t", "e", "x", "t", "/", "p", "l", "a", "i", "n">>
    /\ TheBytes = <<"a", "<FF>", "\n">>
    /\ ClassifyResult = [ok |-> FALSE]

-----------------------------------------------------------------------------
(* Properties of the markup parser (SpecGemText).                          *)

Parsed == IsSome(applied) /\ IsSome(Unwrap(applied).result)

TheText == Unwrap(applied).raw_text

TheBase == Unwrap(applied).url

TheElems == Unwrap(Unwrap(applied).result).elems

TheLinks == Unwrap(Unwrap(applied).result).links

TheShown == Unwrap(Unwrap(applied).result).shown

\* The positions of the line feeds of a text.
Feeds(text) == {i \in 1..Len(text) : text[i] = "\n"}

\* The number of lines of a text: one for each line feed, and one more for
\* what follows the last line feed unless that is empty.
NumLines(text) ==
    Cardinality(Feeds(text))
        + (IF text # << >> /\ text[Len(text)] # "\n" THEN 1 ELSE 0)

\* The position of the k-th line feed of a text, 0 for k = 0 and one past the
\* end of the text when it has fewer than k.
FeedAt(text, k) ==
    IF k = 0 THEN 0
    ELSE IF k > Cardinality(Feeds(text)) THEN Len(text) + 1
    ELSE CHOOSE i \in Feeds(text) :
             Cardinality({j \in Feeds(text) : j <= i}) = k

\* The k-th line of a text, without its line feed.
LineAt(text, k) ==
    SubSeq(text, FeedAt(text, k - 1) + 1, FeedAt(text, k) - 1)

\* C17: the parser yields one element for each line of the text, in the order
\* of the lines, each made of that line alone; a line feed at the end adds no
\* empty last element, and the empty text yields no element.
C17_OneElementPerLine ==
    Parsed =>
        /\ Len(TheElems) = NumLines(TheText)
        /\ \A k \in 1..Len(TheElems) :
              TheElems[k] = ParseLine(LineAt(TheText, k), TheBase)
        /\ TheText = << >> => TheElems = << >>

\* C17 witness: a text of three lines, the second empty, ending with a line
\* feed, gave three elements.
C17_Witness ==
    /\ Parsed
    /\ TheText = <<"t", "\n", "\n", " ", "t", " ", "\n">>
    /\ Len(TheElems) = 3
    /\ TheElems[2] = [kind |-> "Text", text |-> << >>]

\* The line begins with the link marker.
HasLinkMarker(line) == Len(line) >= 2 /\ line[1] = "=" /\ line[2] = ">"

\* The line begins with the fence marker.
HasFenceMarker(line) ==
    /\ Len(line) >= 3
    /\ \A i \in 1..3 : line[i] = Backtick

\* What follows the link marker, without the whitespace around it.
AfterMarker(line) == Trim(SubSeq(line, 3, Len(line)))

\* The position of the first whitespace of a text, 0 if it has none.
FirstBlank(text) ==
    IF \E i \in 1..Len(text) : text[i] \in {" ", "\t"}
    THEN CHOOSE i \in 1..Len(text) :
             /\ text[i] \in {" ", "\t"}
             /\ \A j \in 1..(i - 1) : text[j] \notin {" ", "\t"}
    ELSE 0

TargetText(line) ==
    IF FirstBlank(AfterMarker(line)) = 0 THEN AfterMarker(line)
    ELSE SubSeq(AfterMarker(line), 1, FirstBlank(AfterMarker(line)) - 1)

Label(line) ==
    IF FirstBlank(AfterMarker(line)) = 0 THEN << >>
    ELSE SubSeq(AfterMarker(line), FirstBlank(AfterMarker(line)) + 1,
                Len(AfterMarker(line)))

\* The text holds "://".
HasSchemeSeparator(text) ==
    \E i \in 1..(Len(text) - 2) :
        text[i] = ":" /\ text[i + 1] = "/" /\ text[i + 2] = "/"

\* The address a target text stands for against a base.
Resolved(text, base) ==
    IF HasSchemeSeparator(text) THEN UrlParse(text) ELSE UrlJoin(base, text)

\* C18: a line with the link marker whose target resolves yields Link with
\* the text after the marker split at its first whitespace into target and
\* label, the target resolved against the base when it has no "://" and
\* parsed as an absolute address when it has, the label empty when there is
\* none; "=> /a/b label" against gemini://host/dir/ gives gemini://host/a/b
\* and "label".
C18_LinkTargetAndLabel ==
    Parsed =>
        \A k \in 1..NumLines(TheText) :
            LET line == LineAt(TheText, k)
            IN  /\ (HasLinkMarker(line)
                       /\ Resolved(TargetText(line), TheBase).ok) =>
                      TheElems[k] =
                          [kind |-> "Link",
                           url |-> Resolved(TargetText(line), TheBase).url,
                           text |-> Label(line)]
                /\ (/\ line = <<"=", ">", " ", "/", "a", "/", "b", " ", "l", "a", "b", "e", "l">>
                    /\ TheBase.host = <<"h", "o", "s", "t">>) =>
                      TheElems[k] =
                          [kind |-> "Link",
                           url |-> [scheme |-> <<"g", "e", "m", "i", "n", "i">>,
                                    host |-> <<"h", "o", "s", "t">>,
                                    path |-> <<"/", "a", "/", "b">>,
                                    query |-> << >>,
                                    port |-> << >>],
                           text |-> <<"l", "a", "b", "e", "l">>]

\* C18 witness: "=>b" and then "=> gemini://h/c  two" against
\* gemini://host/dir/ gave a link to gemini://host/dir/b without label and a
\* link to gemini://h/c.
C18_Witness ==
    /\ Parsed
    /\ TheBase.host = <<"h", "o", "s", "t">>
    /\ Len(TheElems) = 2
    /\ TheElems[1] = [kind |-> "Link",
                      url |-> [scheme |-> <<"g", "e", "m", "i", "n", "i">>,
                               host |-> <<"h", "o", "s", "t">>,
                               path |-> <<"/", "d", "i", "r", "/", "b">>,
                               query |-> << >>,
                               port |-> << >>],
                      text |-> << >>]
    /\ TheElems[2].kind = "Link"
    /\ TheElems[2].url.host = <<"h">>
    /\ TheElems[2].url.path = <<"/", "c">>

\* The lines from the k-th on that did not fail to parse, each with a line
\* feed.
RECURSIVE WithoutFailedFrom(_, _, _)
WithoutFailedFrom(text, elems, k) ==
    IF k > Len(elems) THEN << >>
    ELSE (IF elems[k].kind = "Err" THEN << >>
          ELSE LineAt(text, k) \o <<"\n">>)
            \o WithoutFailedFrom(text, elems, k + 1)

\* The text without the lines that failed to parse.
WithoutFailed == WithoutFailedFrom(TheText, TheElems, 1)

\* C19: a line that fails to parse gives one error element and the parser
\* goes on: the other elements, the links selected by number and the lines
\* displayed are those of the text without the failed lines.
C19_FailedLineSkipped ==
    Parsed =>
        LET NotErr(e) == e.kind # "Err"
        IN  /\ Len(TheElems) = NumLines(TheText)
            /\ SelectSeq(TheElems, NotErr)
                  = GemTextParse(WithoutFailed, TheBase)
            /\ TheLinks = LinkUrls(SelectSeq(TheElems, NotErr))
            /\ Len(TheLinks)
                  = Cardinality({k \in 1..Len(TheElems) :
                                    TheElems[k].kind = "Link"})
            /\ TheShown = RenderGemText(WithoutFailed, TheBase)
            /\ Len(TheShown)
                  = Cardinality({k \in 1..Len(TheElems) :
                                    TheElems[k].kind # "Err"})

\* C19 witness: of three link lines the second failed to parse; two links can
\* be selected and two lines are displayed, the last numbered 1.
C19_Witness ==
    /\ Parsed
    /\ Len(TheElems) = 3
    /\ TheElems[1].kind = "Link"
    /\ TheElems[2].kind = "Err"
    /\ TheElems[3].kind = "Link"
    /\ Len(TheLinks) = 2
    /\ TheLinks[2] = TheElems[3].url
    /\ Len(TheShown) = 2
    /\ SubSeq(TheShown[2].text, 1, 4) = <<"[", "1", "]", " ">>

\* C20: a line with the fence marker yields Preformatted of the rest of that
\* line, and a line with neither marker yields Text of the line as it is,
\* whatever the lines before it are.
C20_ClassByOwnPrefix ==
    Parsed =>
        \A k \in 1..NumLines(TheText) :
            LET line == LineAt(TheText, k)
            IN  /\ HasFenceMarker(line) =>
                      TheElems[k] = [kind |-> "PreFormatted",
                                     text |-> SubSeq(line, 4, Len(line))]
                /\ (~HasFenceMarker(line) /\ ~HasLinkMarker(line)) =>
                      TheElems[k] = [kind |-> "Text", text |-> line]

\* C20 witness: a fence line, then " t ", then a fence line: Preformatted,
\* Text " t ", Preformatted.
C20_Witness ==
    /\ Parsed
    /\ Len(TheElems) = 3
    /\ TheElems[1] = [kind |-> "PreFormatted", text |-> <<"p">>]
    /\ TheElems[2] = [kind |-> "Text", text |-> <<" ", "t", " ">>]
    /\ TheElems[3] = [kind |-> "PreFormatted", text |-> <<"p">>]

-----------------------------------------------------------------------------
(* Further properties of the session (Spec).                               *)

\* The links of the displayed content that a number selects: those of its
\* text parsed against current(), none when it is absent or binary.
SelectableLinks ==
    IF IsSome(content) /\ Unwrap(content).body.kind = "String"
    THEN LinkUrls(GemTextParse(Unwrap(content).body.data, NavCurrent(TheNav)))
    ELSE << >>

\* C21: Enter in Typing(buf) with buf a number n and fewer than n+1 links in
\* the displayed content (or a binary or absent content) changes nothing:
\* history, content, scroll, status with its buffer; the session goes on and
\* no request is made.
C21_NumberWithoutLinkIsNoOp ==
    [][(/\ status.tag = "Typing"
        /\ lastEv' = "Typing/Enter"
        /\ IsSome(ParseUsize(status.text))
        /\ Unwrap(ParseUsize(status.text)) >= Len(SelectableLinks)) =>
         UNCHANGED <<gemspaces, position, content, scroll, status, exit,
                     call>>]_vars

\* C21 witness: "0" was submitted on a binary page and the session is still
\* in Typing("0") on that page.
C21_Witness ==
    /\ lastEv = "Typing/Enter"
    /\ status = Typing(<<"0">>)
    /\ exit = "running"
    /\ IsSome(content)
    /\ Unwrap(content).body.kind = "Bytes"

\* The steps that are to leave history and content alone: scrolling, entering
\* typing mode, a character typed, the cancel in Typing, and unmapped keys.
QuietSteps ==
    {"Browsing/Up", "Browsing/Down", "Browsing/PageUp", "Browsing/PageDown",
     "Browsing/i", "Typing/Char", "Input/Char", "Typing/Esc",
     "Browsing/other", "Typing/other", "Input/other"}

\* The steps that may change history or content: back, advance, the two
\* submits and the load.
ChangingSteps ==
    {"Browsing/<", "Browsing/>", "Typing/Enter", "Input/Enter", "load"}

\* C22: scrolling, entering typing mode, typing a character, cancelling in
\* Typing (which returns to Browsing) and unmapped keys leave the history and
\* the content as they are; they change only in back, advance, the submits
\* and the load.
C22_HistoryAndContentFrame ==
    [][/\ lastEv' \in QuietSteps =>
             UNCHANGED <<gemspaces, position, content>>
       /\ lastEv' = "Typing/Esc" => status' = Browsing
       /\ (<<gemspaces, position, content>>' # <<gemspaces, position, content>>)
             => lastEv' \in ChangingSteps]_vars

\* C22 witness: Typing was cancelled on a page reached by a push, and the
\* page is still displayed.
C22_Witness ==
    /\ lastEv = "Typing/Esc"
    /\ status = Browsing
    /\ position > 0
    /\ IsSome(content)

\* The session entered Loading: scroll reset, content cleared.
EntersLoading ==
    /\ status' = Loading
    /\ scroll' = <<0, 0>>
    /\ content' = None
    /\ exit' = "running"

\* C23: '<' and '>' in Browsing move the cursor one entry back or forward,
\* or leave it at the first or last entry, and in each case enter Loading
\* with the scroll offset (0,0) and no content.
C23_BackAdvanceReload ==
    [][/\ lastEv' = "Browsing/<" =>
             /\ gemspaces' = gemspaces
             /\ position' = IF position = 0 THEN 0 ELSE position - 1
             /\ EntersLoading
       /\ lastEv' = "Browsing/>" =>
             /\ gemspaces' = gemspaces
             /\ position' = IF position = Len(gemspaces) - 1
                            THEN position ELSE position + 1
             /\ EntersLoading]_vars

\* C23 witness: '<' on the only entry of the history: the session is in
\* Loading on that entry.
C23_Witness ==
    /\ lastEv = "Browsing/<"
    /\ Len(gemspaces) = 1
    /\ position = 0
    /\ status = Loading
    /\ content = None
    /\ scroll = <<0, 0>>

\* C24: in Loading no key is handled: the only steps are the load, one
\* request for current() after which the session is in Browsing or Input or
\* has ended, and the end of the session on a failure of the terminal,
\* without a request.
C24_LoadingOnlyLoads ==
    [][status.tag = "Loading" =>
         \/ /\ lastEv' = "load"
            /\ call'.url = NavCurrent(TheNav)
            /\ IsSome(call'.result)
            /\ status'.tag \in {"Browsing", "Input"} \/ exit' # "running"
         \/ /\ lastEv' = "terminal"
            /\ call' = call
            /\ exit' = "error"]_vars

\* C24 witness: the third entry of the history was loaded and is browsed.
C24_Witness ==
    /\ lastEv = "load"
    /\ position = 2
    /\ status = Browsing
    /\ exit = "running"

-----------------------------------------------------------------------------
(* Further properties of the client (SpecClient).                          *)

\* The positions of a text that hold no whitespace.
Inked(text) ==
    {i \in 1..Len(text) : text[i] \notin {" ", "\t", "\r", "\n"}}

\* The text without the whitespace at its two ends.
Trimmed(text) ==
    IF Inked(text) = {} THEN << >>
    ELSE SubSeq(text,
                CHOOSE i \in Inked(text) : \A j \in Inked(text) : i <= j,
                CHOOSE i \in Inked(text) : \A j \in Inked(text) : j <= i)

\* C25: a reply 4x, 5x or 6x of the table carries no message when its
\* remainder is empty or whitespace, and else the trimmed remainder; "51 "
\* and nothing more gives PermanentFailure{NotFound, None}; the prompt of a
\* reply 10 or 11 is the trimmed remainder.
C25_MessageAndPromptTrimmed ==
    (Answered /\ InTable /\ Utf8Valid(RemainderOf)) =>
        /\ StatusOf[1] \in {"4", "5", "6"} =>
              /\ CallResult.kind = "Ok"
              /\ CallResult.resp.error_msg =
                    IF Trimmed(RemainderOf) = << >> THEN << >>
                    ELSE <<Trimmed(RemainderOf)>>
        /\ (StatusOf = <<"5", "1", " ">> /\ RemainderOf = << >>) =>
              CallResult = [kind |-> "Ok",
                            resp |-> [variant |-> "PermanentFailure",
                                      status |-> "NotFound",
                                      error_msg |-> << >>]]
        /\ StatusOf[1] = "1" =>
              /\ CallResult.kind = "Ok"
              /\ CallResult.resp.prompt = Trimmed(RemainderOf)

\* C25 witness: "41 " followed by a blank and a line end gave
\* TemporaryFailure{ServerUnavailable} without message.
C25_Witness ==
    /\ Answered
    /\ StatusOf = <<"4", "1", " ">>
    /\ RemainderOf = <<" ", "\r", "\n">>
    /\ CallResult = [kind |-> "Ok",
                     resp |-> [variant |-> "TemporaryFailure",
                               status |-> "ServerUnavailable",
                               error_msg |-> << >>]]

\* What the i-th connection of the call yields.
HopReply(i) == ReplyAt(call.replies, i)

\* What follows the status in the i-th reply of the call.
RemainderAt(i) == AfterStatus(Unwrap(HopReply(i)))

\* The address the i-th request of the call is made with: the address of the
\* call, then the target of the redirect before.
HopUrl(i) ==
    IF i = 1 THEN call.url ELSE UrlParse(Trim(RemainderAt(i - 1))).url

\* The i-th request passes the checks of its address.
HopPasses(i) ==
    /\ HopUrl(i).scheme = Gemini
    /\ IsSome(UrlDomain(HopUrl(i)))
    /\ ServerNameOk(Unwrap(UrlDomain(HopUrl(i))))

\* The i-th reply is a redirect that the call follows.
HopFollowed(i) ==
    /\ auto_redirect
    /\ IsSome(HopReply(i))
    /\ ~ReadFails(Unwrap(HopReply(i)))
    /\ StatusRead(Unwrap(HopReply(i)))
          \in {<<"3", "0", " ">>, <<"3", "1", " ">>}
    /\ Utf8Valid(RemainderAt(i))
    /\ UrlParse(Trim(RemainderAt(i))).ok

\* The i-th request of the call is made and connects.
HopConnects(i) ==
    /\ \A j \in 1..(i - 1) : HopPasses(j) /\ HopFollowed(j)
    /\ HopPasses(i)

\* The bytes written on a connection, in order.
RECURSIVE Written(_)
Written(conn) ==
    IF conn = << >> THEN << >>
    ELSE (IF Head(conn).op = "write" THEN Head(conn).bytes ELSE << >>)
            \o Written(Tail(conn))

\* The request line of an address: the absolute address, "/" for an empty
\* path, and CR LF.
LineOf(u) ==
    u.scheme \o <<":", "/", "/">> \o u.host
        \o (IF u.port = << >> THEN << >> ELSE <<":">> \o ToDigits(u.port[1]))
        \o (IF u.path = << >> THEN <<"/">> ELSE u.path)
        \o (IF u.query = << >> THEN << >> ELSE <<"?">> \o u.query[1])
        \o <<"\r", "\n">>

\* host ":" port of an address, 1965 when it names no port.
AddressOf(u) ==
    u.host \o <<":">>
        \o ToDigits(IF u.port = << >> THEN 1965 ELSE u.port[1])

\* Connection conn carried a request: more than the connect was done on it.
Carried(conn) == Len(conn) > 1

\* C26: the connections of a call are those of the requests it made that
\* passed the checks, in order, the redirects it followed included: the
\* first is that of the call's address, each later one follows a connection
\* whose reply was a followed redirect, and a followed redirect whose target
\* passes the checks has its connection, unless the process was ended
\* before the request to the target connected.  Each starts with its one connect,
\* to the host and port of its request's address, 1965 when there is no
\* port.  A connection that carried a request has the request line as all
\* that was written, the flush after the last write and before the first
\* read, and as bytes read what the client takes of the reply.  A connection
\* carries no request only as the last of a call that failed with the io
\* error or ended the process.
C26_OneConnectionOneLine ==
    IsSome(call.result) =>
        /\ (call.conns # << >>) = HopPasses(1)
        /\ \A i \in 1..Len(call.conns) :
              LET conn == call.conns[i]
              IN  /\ HopConnects(i)
                  /\ \A j \in 1..(i - 1) : Carried(call.conns[j])
                  /\ {k \in 1..Len(conn) : conn[k].op = "connect"} = {1}
                  /\ conn[1].bytes = AddressOf(HopUrl(i))
                  /\ (Carried(conn) /\ HopFollowed(i) /\ HopPasses(i + 1)) =>
                        i < Len(call.conns) \/ CallResult = ROverflow
                  /\ ~Carried(conn) =>
                        /\ i = Len(call.conns)
                        /\ CallResult \in {RErr("io"), ROverflow}
                  /\ Carried(conn) =>
                        /\ IsSome(HopReply(i))
                        /\ Written(conn) = LineOf(HopUrl(i))
                        /\ \E f \in 1..Len(conn) :
                              /\ conn[f].op = "flush"
                              /\ \A k \in 1..Len(conn) :
                                    /\ conn[k].op = "write" => k < f
                                    /\ conn[k].op = "read" => f < k
                                    /\ conn[k].op = "read" =>
                                          conn[k].bytes =
                                             Consumed(Unwrap(HopReply(i)))
                        /\ \E k \in 1..Len(conn) : conn[k].op = "read"

\* C26, where every reply is a followed redirect: each connection but the
\* last carried the request line of its hop, and the last, made when the
\* process had no file or no stack left, carried none.
C26_ExhaustedSeen ==
    /\ IsSome(call.result)
    /\ CallResult \in {RErr("io"), ROverflow}
    /\ Len(call.conns) > 2
    /\ \A i \in 1..(Len(call.conns) - 1) :
          /\ Carried(call.conns[i])
          /\ Written(call.conns[i]) = LineOf(HopUrl(i))
    /\ ~Carried(call.conns[Len(call.conns)])

\* C26, where every reply is a followed redirect and the process ended
\* before the last request connected: every connection carried the request
\* line of its hop and a reply that was a followed redirect.
C26_EndedBeforeConnectSeen ==
    /\ IsSome(call.result)
    /\ CallResult = ROverflow
    /\ Len(call.conns) > 2
    /\ \A i \in 1..Len(call.conns) :
          /\ Carried(call.conns[i])
          /\ Written(call.conns[i]) = LineOf(HopUrl(i))
          /\ HopFollowed(i)

\* C26 witness: gemini://tlgs.one, redirected once, was requested on two
\* connections to tlgs.one:1965; the first carried "gemini://tlgs.one/\r\n"
\* and the second the line of the target.
C26_Witness ==
    /\ IsSome(call.result)
    /\ call.url = MkUrl(Gemini, StartUrl.host, << >>, None)
    /\ Len(call.conns) = 2
    /\ call.conns[1][1].bytes = StartUrl.host \o <<":", "1", "9", "6", "5">>
    /\ Written(call.conns[1]) = LineOf(StartUrl)
    /\ Written(call.conns[2]) = LineOf(HopUrl(2))

\* C26 witness of a port: gemini://tlgs.one:1966/ was requested on a
\* connection to tlgs.one:1966 with its port in the request line.
C26_PortWitness ==
    /\ IsSome(call.result)
    /\ IsSome(call.url.port)
    /\ Len(call.conns) = 1
    /\ Len(call.conns[1]) > 1
    /\ call.conns[1][1].bytes = StartUrl.host \o <<":", "1", "9", "6", "6">>
    /\ Written(call.conns[1]) =
          Gemini \o <<":", "/", "/">> \o StartUrl.host
             \o <<":", "1", "9", "6", "6", "/", "\r", "\n">>

-----------------------------------------------------------------------------
(* Further properties of the session (Spec).                               *)

\* The step is a page up or a page down that read the height of the terminal.
PageKey ==
    /\ lastEv' \in {"Browsing/PageUp", "Browsing/PageDown"}
    /\ rows' # << >>

\* The terminal height the step read.
HeightRead == rows'[1]

\* The distance between two offsets.
Distance(a, b) == IF a <= b THEN b - a ELSE a - b

\* C27 as stated: page up and page down succeed for every terminal height,
\* heights below 3 included, and move the vertical offset by a page step that
\* did not underflow, so by no more than the height of the terminal; line up
\* and down move it by 1, saturating; the offset stays a u16 and the
\* horizontal offset is never changed.
C27_PageStepNeverFails ==
    [][/\ PageKey =>
             /\ exit' = "running"
             /\ Distance(scroll[1], scroll'[1]) <= HeightRead
       /\ lastEv' = "Browsing/Up" =>
             scroll'[1] = (IF scroll[1] = 0 THEN 0 ELSE scroll[1] - 1)
       /\ lastEv' = "Browsing/Down" =>
             scroll'[1] = (IF scroll[1] = U16Max THEN U16Max
                           ELSE scroll[1] + 1)
       /\ scroll'[1] \in 0..U16Max
       /\ scroll'[2] = 0]_vars

\* C27, for terminals of height 3 and more: a page key moves the vertical
\* offset by height - 3, saturating at 0 and at the largest u16; for every
\* height the line keys move it by 1, saturating, and no step changes the
\* horizontal offset or takes the vertical offset out of the u16 range.
C27_ScrollSaturatesFromHeightThree ==
    [][/\ (PageKey /\ HeightRead >= 3) =>
             /\ exit' = "running"
             /\ lastEv' = "Browsing/PageUp" =>
                   scroll'[1] = (IF scroll[1] < HeightRead - 3 THEN 0
                                 ELSE scroll[1] - (HeightRead - 3))
             /\ lastEv' = "Browsing/PageDown" =>
                   scroll'[1] =
                      (IF scroll[1] + (HeightRead - 3) > U16Max THEN U16Max
                       ELSE scroll[1] + (HeightRead - 3))
       /\ lastEv' = "Browsing/Up" =>
             scroll'[1] = (IF scroll[1] = 0 THEN 0 ELSE scroll[1] - 1)
       /\ lastEv' = "Browsing/Down" =>
             scroll'[1] = (IF scroll[1] = U16Max THEN U16Max
                           ELSE scroll[1] + 1)
       /\ scroll'[1] \in 0..U16Max
       /\ scroll'[2] = 0]_vars

\* A page key was pressed in a terminal of height 2: the session panicked, or
\* the offset moved by a wrapped step.
C27_ShortTerminalSeen ==
    /\ lastEv \in {"Browsing/PageUp", "Browsing/PageDown"}
    /\ rows = <<2>>
    /\ exit = "panic" \/ scroll[1] >= U16Max - MaxScroll

\* C28: in Input, Esc empties the buffer and leaves the status Input and the
\* history and the page as they are; only Enter leaves Input or moves in the
\* history from it, and no key quits from it: every other key leaves the
\* session running, and a failure of the terminal ends it with the error, not
\* with a quit; a quit happens in Browsing only.
C28_InputLeftBySubmitOnly ==
    [][/\ lastEv' = "Input/Esc" =>
             /\ status' = Input(<< >>)
             /\ gemspaces' = gemspaces
             /\ position' = position
             /\ content' = content
             /\ exit' = "running"
       /\ (status.tag = "Input" /\ lastEv' # "Input/Enter") =>
             /\ status'.tag = "Input"
             /\ gemspaces' = gemspaces
             /\ position' = position
             /\ exit' = IF lastEv' = "terminal" THEN "error" ELSE "running"
       /\ (exit = "running" /\ exit' = "quit") => status.tag = "Browsing"]_vars

\* C28 witness: Esc was pressed in Input; the prompt is shown with an empty
\* buffer.
C28_Witness ==
    /\ lastEv = "Input/Esc"
    /\ status = Input(<< >>)
    /\ IsSome(content)
    /\ exit = "running"

\* The page shown for the prompt the last load was answered with.
PromptShown ==
    /\ IsSome(call.result)
    /\ Unwrap(call.result).kind = "Ok"
    /\ Unwrap(call.result).resp.variant = "Input"
    /\ content =
          <<[mime |-> <<"t", "e", "x", "t", "/", "p", "l", "a", "i", "n">>,
             body |-> BodyString(Unwrap(call.result).resp.prompt)]>>

\* The invariant of C29 on the states of the session.
StatusAndContentAgree ==
    /\ status.tag = "Loading" => (content = << >> /\ scroll = <<0, 0>>)
    /\ status.tag \in {"Browsing", "Typing", "Input"} => Len(content) = 1
    /\ status.tag = "Input" => PromptShown

\* C29: in Loading there is no content and the scroll offset is (0,0); in
\* Browsing, Typing and Input there is a content, and in Input it is the
\* text/plain page of the prompt; Typing is entered from Browsing only, with
\* an empty buffer.
C29_StatusContentInvariant ==
    /\ []StatusAndContentAgree
    /\ [][(status.tag # "Typing" /\ status'.tag = "Typing") =>
             (status.tag = "Browsing" /\ status' = Typing(<< >>))]_vars

\* C29 witness: a number was submitted on a page and the session is in
\* Loading again, without content and with the scroll offset (0,0).
C29_Witness ==
    /\ lastEv = "Typing/Enter"
    /\ status.tag = "Loading"
    /\ content = << >>
    /\ scroll = <<0, 0>>
    /\ IsSome(call.result)

\* C29 witness of a prompt: the session is in Input on the page of a prompt
\* that is not empty.
C29_PromptWitness ==
    /\ status.tag = "Input"
    /\ PromptShown
    /\ Unwrap(call.result).resp.prompt # << >>

\* The display shows a link numbered n with target t.
ShowsLink(n, t) ==
    \E k \in 1..Len(ShownLinks(content, NavCurrent(TheNav))) :
        /\ ShownLinks(content, NavCurrent(TheNav))[k].n = n
        /\ ShownLinks(content, NavCurrent(TheNav))[k].url = t

\* The addresses a link of the pages of the session can have.
LinkTargets ==
    {UrlJoin(StartUrl, p).url : p \in {<<"/", "a">>, <<"/", "b">>}}
        \cup {ShownLinks(content, NavCurrent(TheNav))[k].url :
                 k \in 1..Len(ShownLinks(content, NavCurrent(TheNav)))}

\* The number submitted in Typing.
Submitted == Unwrap(ParseUsize(status.text))

\* A number is submitted in Typing.
NumericSubmit ==
    /\ status.tag = "Typing"
    /\ lastEv' = "Typing/Enter"
    /\ IsSome(ParseUsize(status.text))

\* C30 as stated: a number n submitted in Typing pushes t exactly when the
\* display shows a link numbered n with target t; on a content whose links
\* are not numbered nothing is pushed.
C30_SelectionAgreesWithDisplay ==
    [][NumericSubmit =>
          \A t \in LinkTargets : Pushed(t) <=> ShowsLink(Submitted, t)]_vars

\* C30, on the contents that are shown as markup, binary or absent, and apart
\* from the push that panics: the submit pushes t exactly when the display
\* shows a link numbered n with target t.
C30_AgreesOnMarkupPages ==
    [][(/\ NumericSubmit
        /\ exit' # "panic"
        /\ (IsSome(content) /\ Unwrap(content).body.kind = "String") =>
              StartsWith(Unwrap(content).mime,
                         <<"t", "e", "x", "t", "/", "g", "e", "m", "i", "n",
                           "i">>)) =>
          \A t \in LinkTargets : Pushed(t) <=> ShowsLink(Submitted, t)]_vars

\* On the page "=> /a" served as text/plain, which is shown as it is, "0" was
\* submitted and gemini://tlgs.one/a was pushed.
C30_PlainLinkFollowed ==
    /\ lastEv = "Typing/Enter"
    /\ call.replies = <<Some(ReplyPlainLinks)>>
    /\ status.tag = "Loading"
    /\ position > 0
    /\ gemspaces[position + 1] = UrlJoin(StartUrl, <<"/", "a">>).url

\* The address the last load requested is the current entry of the history.
CurrentIsRequested ==
    /\ IsSome(call.result)
    /\ position < Len(gemspaces)
    /\ gemspaces[position + 1] = call.url

\* The entry a push has made current.
NewCurrent == gemspaces'[position' + 1]

\* Enter in Typing pushed an address and the session loads it.
TypedPush ==
    /\ status.tag = "Typing"
    /\ lastEv' = "Typing/Enter"
    /\ status'.tag = "Loading"
    /\ exit' = "running"

\* C31: a load leaves the sequence and the cursor of the history as they
\* are, whether it ends in a page, a prompt or an error and whether redirects
\* were followed; while a page or a prompt is shown, current() is the address
\* the load requested, and the links of the page and the relative addresses
\* typed are resolved against that address.
C31_LoadKeepsHistory ==
    /\ []((exit = "running" /\ status.tag # "Loading") => CurrentIsRequested)
    /\ [][/\ lastEv' = "load" =>
                (gemspaces' = gemspaces /\ position' = position)
          /\ TypedPush =>
                IF IsSome(ParseUsize(status.text))
                THEN /\ Unwrap(content).body.kind = "String"
                     /\ NewCurrent =
                           LinkUrls(GemTextParse(Unwrap(content).body.data,
                                                 call.url))
                              [Unwrap(ParseUsize(status.text)) + 1]
                ELSE IF StartsWith(status.text, GeminiPrefix)
                THEN NewCurrent = UrlParse(status.text).url
                ELSE NewCurrent = UrlJoin(call.url, status.text).url]_vars

\* C31 witness: a load from an entry that is not the first was redirected to
\* gemini://tlgs.one/d/ over two connections and shows the page; the history
\* still has the address requested as its current entry.
C31_Witness ==
    /\ lastEv = "load"
    /\ call.replies = <<Some(ReplyRedirectDeep), Some(ReplyRelativeLink)>>
    /\ Len(call.conns) = 2
    /\ status = Browsing
    /\ position > 0
    /\ gemspaces[position + 1] = call.url
    /\ call.url.path # <<"/", "d", "/">>

\* C31 witness of the base: on the page reached through the redirect to
\* gemini://tlgs.one/d/ from gemini://tlgs.one/, link 0, "=> c", was followed
\* to gemini://tlgs.one/c.
C31_BaseWitness ==
    /\ lastEv = "Typing/Enter"
    /\ call.replies = <<Some(ReplyRedirectDeep), Some(ReplyRelativeLink)>>
    /\ call.url = StartUrl
    /\ status.tag = "Loading"
    /\ gemspaces[position + 1] = UrlJoin(StartUrl, <<"/", "c">>).url

=============================================================================
